---- MODULE Spec2Model ----
(***************************************************************************)
(* Model of the guitar-tui session composer: the keyboard dispatcher of    *)
(* App (app.tsx), the session editor hook (useSessionEditor), the data     *)
(* hook (useNotionData), the practice timer and the Notion client.         *)
(*                                                                         *)
(* Indices are 0-based as in the code; At(s, i) reads a 0-based index of a *)
(* TLA+ sequence.  A remote call is one step: it is issued and resolved    *)
(* (with success or with failure) in the same step.  The list `calls'      *)
(* records the invocations of the client's write primitives                *)
(* (createPracticeSession, createPracticeLog, updatePracticeLog,           *)
(* deletePracticeLog) with the arguments their caller passes.              *)
(***************************************************************************)
EXTENDS Integers, Sequences, FiniteSets, TLC

(***************************************************************************)
(* Bounds of the model.                                                    *)
(***************************************************************************)
\* catalog items of the practice library: ids 1..NItems
NItems == 3
\* planned minutes are capped in the guard of the increment key
MaxPlanned == 5
\* the store holds at most this many log records (caps createPracticeLog)
MaxLogs == 3
\* the store holds at most this many sessions (caps createPracticeSession)
MaxSessions == 2
\* loads started from the session picker and not yet resolved, per session
MaxPending == 1
\* wall clock values 0..MaxNow (milliseconds)
MaxNow == 3
\* a timer is paused at most this often
MaxPauses == 2

(***************************************************************************)
(* Program constants.                                                      *)
(***************************************************************************)
\* null / undefined of a number or an id
Null == -1
\* planned minutes of a toggled item, and of a log without planned time
DefaultMinutes == 5
\* appendTimeDigit keeps at most this many digits
MaxDigits == 3
\* sessionCursorIndex after a create
CreatedCursor == 1
\* milliseconds per minute
MsPerMinute == 60000

Items == 1..NItems
\* an item id that no library item carries (a log whose item was deleted)
GhostItem == 0

At(s, i) == s[i + 1]
InRange(s, i) == i >= 0 /\ i < Len(s)
Max(a, b) == IF a >= b THEN a ELSE b
Min(a, b) == IF a <= b THEN a ELSE b

\* Array.prototype.findIndex: the first 0-based index satisfying P, or -1
FindIndex(s, P(_)) ==
  IF \E i \in 1..Len(s) : P(s[i])
  THEN (CHOOSE i \in 1..Len(s) : P(s[i]) /\ \A j \in 1..(i - 1) : ~P(s[j])) - 1
  ELSE -1

(***************************************************************************)
(* SelectedItem (notion/types.ts, with actualMinutes as the editor uses    *)
(* it).  An empty slot of a JS array reads as undefined: the record Hole.  *)
(* Decimal minutes are a pair <<n, d>> for n/d, absent is <<>>.            *)
(***************************************************************************)
NoTime == <<>>
Hole == [item |-> Null, plannedMinutes |-> Null, actualMinutes |-> NoTime, logId |-> Null]
SelectedItem(it, planned, actual, lid) ==
  [item |-> it, plannedMinutes |-> planned, actualMinutes |-> actual, logId |-> lid]

(***************************************************************************)
(* Pure parts of useSessionEditor.                                         *)
(***************************************************************************)
HasItem(current, it) == \E i \in 1..Len(current) : current[i].item = it

\* A faulty variant of ToggleItems: the new entry is put first.
ToggleItemsFirst(current, it) ==
  IF HasItem(current, it)
  THEN SelectSeq(current, LAMBDA s : s.item # it)
  ELSE <<SelectedItem(it, DefaultMinutes, NoTime, Null)>> \o current

\* toggleItem's state updater
ToggleItems(current, it) ==
  IF HasItem(current, it)
  THEN SelectSeq(current, LAMBDA s : s.item # it)
  ELSE Append(current, SelectedItem(it, DefaultMinutes, NoTime, Null))

\* A faulty variant of AdjustItems: no lower bound.
AdjustItemsNoFloor(current, index, delta) ==
  IF ~InRange(current, index) \/ At(current, index) = Hole THEN current
  ELSE [current EXCEPT ![index + 1].plannedMinutes = @ + delta]

\* adjustTime's state updater
AdjustItems(current, index, delta) ==
  IF ~InRange(current, index) \/ At(current, index) = Hole THEN current
  ELSE [current EXCEPT ![index + 1].plannedMinutes = Max(1, @ + delta)]

\* removeItem's state updater: filter((_, i) => i !== index)
RemoveItems(current, index) ==
  IF ~InRange(current, index) THEN current
  ELSE [k \in 1..(Len(current) - 1) |->
          IF k - 1 < index THEN current[k] ELSE current[k + 1]]

\* A faulty variant of RemoveCursor: the cursor stays where it was.
RemoveCursorStays(i, len) == i

\* removeItem's cursor updater; len is selectedItems.length of the render
RemoveCursor(i, len) == Max(0, Min(i, len - 2))

NewIndex(index, direction) == IF direction = "up" THEN index - 1 ELSE index + 1

\* moveItem's state updater.  The destructuring swap writes current[newIndex]
\* to slot index and current[index] (undefined when index = length) to slot
\* newIndex; writing slot index = length grows the array by one.
MoveItems(current, index, direction) ==
  LET newIndex == NewIndex(index, direction)
      a == IF InRange(current, index) THEN At(current, index) ELSE Hole
      b == At(current, newIndex)
  IN IF newIndex < 0 \/ newIndex >= Len(current) THEN current
     ELSE [k \in 1..Max(Len(current), index + 1) |->
             IF k - 1 = index THEN b
             ELSE IF k - 1 = newIndex THEN a
             ELSE current[k]]

\* A faulty variant of MoveCursor: the cursor stays where it was.
MoveCursorStays(i, direction, len) == i

\* moveItem's cursor updater
MoveCursor(i, direction, len) ==
  LET newIndex == NewIndex(i, direction)
  IN IF newIndex < 0 \/ newIndex >= len THEN i ELSE newIndex

\* totalMinutes: the reduce reads s.plannedMinutes of every slot and throws
\* a TypeError on an undefined slot
TotalThrows(current) == \E i \in 1..Len(current) : current[i] = Hole

(***************************************************************************)
(* Exact-duration entry.  timeInputValue is a string of digit characters,  *)
(* modelled as a sequence of digits 0..9.                                  *)
(***************************************************************************)
Digits == 0..9

\* appendTimeDigit's state updater ("Limit to 3 digits")
AppendDigit(v, digit) == IF Len(v) >= MaxDigits THEN v ELSE Append(v, digit)

\* backspaceTimeDigit: v.slice(0, -1)
DropLast(v) == IF v = <<>> THEN v ELSE SubSeq(v, 1, Len(v) - 1)

\* parseInt(v, 10) of a digit string; NaN (Null) for the empty string
RECURSIVE ParseInt(_)
ParseInt(v) ==
  IF v = <<>> THEN Null
  ELSE IF Len(v) = 1 THEN v[1]
  ELSE 10 * ParseInt(SubSeq(v, 1, Len(v) - 1)) + v[Len(v)]

\* A faulty variant of ConfirmItems: zero minutes are accepted.
ConfirmItemsZero(current, index, v) ==
  LET minutes == ParseInt(v)
  IN IF minutes # Null /\ minutes >= 0 /\ InRange(current, index)
     THEN [current EXCEPT ![index + 1].plannedMinutes = minutes]
     ELSE current

\* confirmTimeEdit's state updater
ConfirmItems(current, index, v) ==
  LET minutes == ParseInt(v)
  IN IF minutes # Null /\ minutes >= 1
     THEN IF ~InRange(current, index) \/ At(current, index) = Hole THEN current
          ELSE [current EXCEPT ![index + 1].plannedMinutes = minutes]
     ELSE current

(***************************************************************************)
(* The Notion client (notion/client.ts) and the store behind it.  A log    *)
(* page is a record; its id is its position in the store's list of pages.  *)
(* The database has an Order property (docs/DEVELOPMENT.md); this client   *)
(* never writes it.                                                        *)
(***************************************************************************)
LogPage(it, sid, planned, actual, ord) ==
  [itemId |-> it, sessionId |-> sid, plannedTime |-> planned,
   actualTime |-> actual, order |-> ord, archived |-> FALSE]

\* An invocation of a write primitive, with the arguments the caller passes;
\* an argument that is not passed is Null (NoTime for decimal minutes).
Call(op, lid, sid, it, planned, ord, actual) ==
  [op |-> op, logId |-> lid, sessionId |-> sid, itemId |-> it,
   plannedTime |-> planned, order |-> ord, actualTime |-> actual]

\* createPracticeSession: the store assigns the next id; the list of
\* sessions is kept as fetchPracticeSessions returns it (newest date first)
StoreCreateSession(ss) == <<Len(ss) + 1>> \o ss

\* createPracticeLog writes Name, Item, Session and "Planned Time (min)";
\* an order field in its argument is not read
StoreCreateLog(pages, c) ==
  Append(pages, LogPage(c.itemId, c.sessionId, c.plannedTime, NoTime, Null))

\* updatePracticeLog(logId, plannedTime) sends its second parameter as the
\* number of "Planned Time (min)".  Both callers pass an updates object, which
\* is no number: no number property of the page changes.
StoreUpdateLog(pages, c) == pages

\* deletePracticeLog archives the page
StoreDeleteLog(pages, c) == [pages EXCEPT ![c.logId].archived = TRUE]

\* the store's change by one successful call
StoreApply(pages, c) ==
  CASE c.op = "createLog" -> StoreCreateLog(pages, c)
    [] c.op = "updateLog" -> StoreUpdateLog(pages, c)
    [] c.op = "deleteLog" -> StoreDeleteLog(pages, c)
    [] OTHER -> pages

\* fetchPracticeLogsBySession: the pages of the session that are not
\* archived, in the store's order (the query gives no sort)
RECURSIVE FetchFrom(_, _, _)
FetchFrom(pages, sid, k) ==
  IF k > Len(pages) THEN <<>>
  ELSE (IF pages[k].sessionId = sid /\ ~pages[k].archived
        THEN <<[id |-> k, itemId |-> pages[k].itemId, sessionId |-> sid,
                plannedTime |-> pages[k].plannedTime,
                actualTime |-> pages[k].actualTime]>>
        ELSE <<>>) \o FetchFrom(pages, sid, k + 1)

FetchLogs(pages, sid) == FetchFrom(pages, sid, 1)

\* A faulty variant of LoadItems: a log whose item is not in the library is
\* kept.
RECURSIVE LoadItemsKeepsAll(_, _)
LoadItemsKeepsAll(fetched, lib) ==
  IF fetched = <<>> THEN <<>>
  ELSE LET log == Head(fetched)
       IN <<SelectedItem(log.itemId,
                         IF log.plannedTime = Null \/ log.plannedTime = 0
                         THEN DefaultMinutes ELSE log.plannedTime,
                         log.actualTime, log.id)>>
          \o LoadItemsKeepsAll(Tail(fetched), lib)

\* loadSessionLogs: the items built from the fetched logs
RECURSIVE LoadItems(_, _)
LoadItems(fetched, lib) ==
  IF fetched = <<>> THEN <<>>
  ELSE LET log == Head(fetched)
       IN (IF \E i \in 1..Len(lib) : lib[i] = log.itemId
           THEN <<SelectedItem(log.itemId,
                               IF log.plannedTime = Null \/ log.plannedTime = 0
                               THEN DefaultMinutes ELSE log.plannedTime,
                               log.actualTime, log.id)>>
           ELSE <<>>) \o LoadItems(Tail(fetched), lib)

\* JSON.parse(JSON.stringify(items)): a copy, field by field
DeepCopy(items) ==
  [k \in 1..Len(items) |->
     SelectedItem(items[k].item, items[k].plannedMinutes,
                  items[k].actualMinutes, items[k].logId)]

(***************************************************************************)
(* saveSession: the write calls of one save, in the order the code issues  *)
(* them, as a function of the closure's selectedItems, originalItems and   *)
(* activeSessionId.                                                        *)
(***************************************************************************)
CurrentIds(sel) == {sel[i].logId : i \in {j \in 1..Len(sel) : sel[j].logId # Null}}

\* A faulty variant of DeleteOps: removed entries are left in the store.
DeleteOpsNone(orig, ids) == <<>>

\* "Delete removed items"
RECURSIVE DeleteOps(_, _)
DeleteOps(orig, ids) ==
  IF orig = <<>> THEN <<>>
  ELSE (IF Head(orig).logId # Null /\ Head(orig).logId \notin ids
        THEN <<Call("deleteLog", Head(orig).logId, Null, Null, Null, Null, NoTime)>>
        ELSE <<>>) \o DeleteOps(Tail(orig), ids)

OriginalIndex(orig, lid) == FindIndex(orig, LAMBDA o : o.logId = lid)

\* A faulty variant of TimeChanged: a changed duration goes unnoticed.
TimeChangedNever(orig, item) == FALSE

TimeChanged(orig, item) ==
  LET originalIndex == OriginalIndex(orig, item.logId)
  IN originalIndex # -1 /\ At(orig, originalIndex).plannedMinutes # item.plannedMinutes

\* A faulty variant of OrderChanged: positions are counted from one.
OrderChangedFromOne(orig, item, i) == OriginalIndex(orig, item.logId) # i + 1

OrderChanged(orig, item, i) == OriginalIndex(orig, item.logId) # i

\* "Update changed items and create new items", from index i on
RECURSIVE UpsertOps(_, _, _, _)
UpsertOps(sel, orig, sid, i) ==
  IF i >= Len(sel) THEN <<>>
  ELSE LET item == At(sel, i)
           timeChanged == TimeChanged(orig, item)
           orderChanged == OrderChanged(orig, item, i)
       IN (IF item.logId # Null
           THEN IF timeChanged \/ orderChanged
                THEN <<Call("updateLog", item.logId, Null, Null,
                            IF timeChanged THEN item.plannedMinutes ELSE Null,
                            IF orderChanged THEN i ELSE Null, NoTime)>>
                ELSE <<>>
           ELSE <<Call("createLog", Null, sid, item.item, item.plannedMinutes, i, NoTime)>>)
          \o UpsertOps(sel, orig, sid, i + 1)

\* EDIT MODE
EditOps(sel, orig, sid) == DeleteOps(orig, CurrentIds(sel)) \o UpsertOps(sel, orig, sid, 0)

\* createFullSession: the session, then one log per item; it passes no order
CreateOps(sel, newSid) ==
  <<Call("createSession", Null, newSid, Null, Null, Null, NoTime)>>
  \o [k \in 1..Len(sel) |->
        Call("createLog", Null, newSid, sel[k].item, sel[k].plannedMinutes, Null, NoTime)]

(***************************************************************************)
(* State.                                                                  *)
(***************************************************************************)
VARIABLES
  state,               \* useNotionData: AppState
  error,               \* useNotionData: error message (its kind), or "none"
  library,             \* useNotionData: the fetched catalog, item ids
  sessions,            \* useNotionData: the fetched session ids
  focusArea,           \* App
  cursorIndex,         \* App: cursor of the library list
  practiceState,       \* App: PracticeState, NoPractice for null
  selectedItems,       \* useSessionEditor: the working set
  originalItems,       \* useSessionEditor: the baseline
  activeSessionId,     \* useSessionEditor: Null for a new session
  selectedPanelIndex,  \* useSessionEditor: cursor of the selected panel
  sessionCursorIndex,  \* useSessionEditor: cursor of the session picker
  isEditingTime,       \* useSessionEditor
  timeInputValue,      \* useSessionEditor
  displayMs,           \* PracticeMode: the displayed time
  now,                 \* Date.now()
  pages,               \* the store: log pages
  storeSessions,       \* the store: session ids, newest first
  job,                 \* the awaited asynchronous operation in progress
  loads,               \* loadSessionLogs calls of the picker, not awaited
  crashed,             \* a render threw
  calls,               \* history: write calls of the job in progress or last finished
  last,                \* history: what that job started from, and how it ended
  clean,               \* history: no edit since the last successful save
  timing,              \* history: the timer's seed, running time, pauses and log
  aborted              \* history: a save was ended by a failed call

appVars == <<state, error, library, sessions, focusArea, cursorIndex>>
editVars == <<selectedItems, originalItems, activeSessionId, selectedPanelIndex,
              sessionCursorIndex, isEditingTime, timeInputValue>>
timerVars == <<practiceState, displayMs, timing>>
storeVars == <<pages, storeSessions>>
histVars == <<calls, last, clean, aborted>>
vars == <<appVars, editVars, timerVars, now, storeVars, job, loads, crashed, histVars>>

NoPractice == [itemIndex |-> Null, startTime |-> 0, accumulatedMs |-> 0,
               isPaused |-> FALSE, isConfirming |-> FALSE]
NoTiming == [seed |-> 0, ran |-> 0, pauses |-> 0, lid |-> Null]
NoJob == [kind |-> "none", pc |-> "none", ops |-> <<>>, sid |-> Null]
NoLast == [kind |-> "none", sel |-> <<>>, orig |-> <<>>, sid |-> Null,
           clean |-> FALSE, outcome |-> "none"]

\* the catalog of the store; the composer never changes it
StoreLibrary == [k \in 1..NItems |-> k]
\* filteredItems with no search text and no type filter, in the list's order
FilteredItems == library

SessionIds == 1..MaxSessions
NoLoads == [s \in SessionIds |-> 0]

\* Stores the composer can start from: one session with three logs.
StoreThree ==
  <<LogPage(1, 1, 5, NoTime, 0), LogPage(2, 1, 4, <<2, 1>>, 1), LogPage(3, 1, Null, NoTime, 2)>>
\* The second log's catalog item does not exist any more.
StoreGhost ==
  <<LogPage(1, 1, 5, NoTime, 0), LogPage(GhostItem, 1, 5, NoTime, 1), LogPage(2, 1, 5, NoTime, 2)>>
InitStores == {StoreThree, StoreGhost}

\* App is constructed: the mount effect of useNotionData is fetching
Mounting ==
  /\ state = "loading" /\ error = "none" /\ library = <<>> /\ sessions = <<>>
  /\ focusArea = "list" /\ cursorIndex = 0 /\ practiceState = NoPractice
  /\ selectedItems = <<>> /\ originalItems = <<>> /\ activeSessionId = Null
  /\ selectedPanelIndex = 0 /\ sessionCursorIndex = 0
  /\ isEditingTime = FALSE /\ timeInputValue = <<>>
  /\ displayMs = 0 /\ now = 0 /\ timing = NoTiming
  /\ job = [NoJob EXCEPT !.kind = "mount", !.pc = "fetch"]
  /\ loads = NoLoads /\ crashed = FALSE
  /\ calls = <<>> /\ last = NoLast /\ clean = FALSE /\ aborted = FALSE

\* the workspace holds one session
Init == Mounting /\ pages \in InitStores /\ storeSessions = <<1>>
\* The store holds two sessions: two logs of the first, one of the second.
StoreTwoSessions ==
  <<LogPage(1, 1, 5, NoTime, 0), LogPage(2, 1, 5, <<2, 1>>, 1), LogPage(3, 2, 5, NoTime, 0)>>
\* the workspace holds two sessions
InitTwo == Mounting /\ pages = StoreTwoSessions /\ storeSessions = <<2, 1>>
\* The store holds one session with one log.
StoreOne == <<LogPage(1, 1, 5, NoTime, 0)>>
InitOne == Mounting /\ pages = StoreOne /\ storeSessions = <<1>>
\* The store holds one session: a log of two minutes and a log without a
\* planned time.
StoreLow == <<LogPage(1, 1, 2, NoTime, 0), LogPage(2, 1, Null, NoTime, 1)>>
InitLow == Mounting /\ pages = StoreLow /\ storeSessions = <<1>>
\* the workspace holds no session yet
InitEmpty == Mounting /\ pages = <<>> /\ storeSessions = <<>>

(***************************************************************************)
(* Key events.  A key handler changes the composer's variables only; the   *)
(* frames below name what each kind of handler leaves alone.               *)
(***************************************************************************)
KeyEvent(name, ctrl, shift) == [name |-> name, ctrl |-> ctrl, shift |-> shift]

DigitNames == {"0", "1", "2", "3", "4", "5", "6", "7", "8", "9"}
DigitOf(name) ==
  CASE name = "0" -> 0 [] name = "1" -> 1 [] name = "2" -> 2 [] name = "3" -> 3
    [] name = "4" -> 4 [] name = "5" -> 5 [] name = "6" -> 6 [] name = "7" -> 7
    [] name = "8" -> 8 [] name = "9" -> 9

asyncVars == <<job, loads>>
Ignored == UNCHANGED <<appVars, editVars, timerVars, asyncVars>>

SetFocus(f) ==
  /\ focusArea' = f
  /\ UNCHANGED <<state, error, library, sessions, cursorIndex>>
  /\ UNCHANGED <<editVars, timerVars, asyncVars>>

SetCursorIndex(c) ==
  /\ cursorIndex' = c
  /\ UNCHANGED <<state, error, library, sessions, focusArea>>
  /\ UNCHANGED <<editVars, timerVars, asyncVars>>

\* A faulty variant of SetSelected: the baseline is the working set's own
\* array, written in place.
SetSelectedShared(items, cursor) ==
  /\ selectedItems' = items
  /\ selectedPanelIndex' = cursor
  /\ originalItems' = IF originalItems = selectedItems THEN items ELSE originalItems
  /\ UNCHANGED <<activeSessionId, sessionCursorIndex, isEditingTime, timeInputValue>>
  /\ UNCHANGED <<appVars, timerVars, asyncVars>>

\* setSelectedItems and setSelectedPanelIndex of one editor operation
SetSelected(items, cursor) ==
  /\ selectedItems' = items
  /\ selectedPanelIndex' = cursor
  /\ UNCHANGED <<originalItems, activeSessionId, sessionCursorIndex, isEditingTime, timeInputValue>>
  /\ UNCHANGED <<appVars, timerVars, asyncVars>>

SetTimeEdit(editing, value, items) ==
  /\ isEditingTime' = editing
  /\ timeInputValue' = value
  /\ selectedItems' = items
  /\ UNCHANGED <<originalItems, activeSessionId, selectedPanelIndex, sessionCursorIndex>>
  /\ UNCHANGED <<appVars, timerVars, asyncVars>>

\* displayMs is PracticeMode's own state: it is gone with the component
SetPractice(ps, st) ==
  /\ practiceState' = ps
  /\ timing' = IF ps = NoPractice THEN NoTiming
               ELSE IF practiceState = NoPractice
               THEN [NoTiming EXCEPT !.seed = ps.accumulatedMs,
                                     !.lid = IF InRange(selectedItems, ps.itemIndex)
                                             THEN At(selectedItems, ps.itemIndex).logId
                                             ELSE Null]
               ELSE IF ps.isPaused /\ ~practiceState.isPaused
               THEN [timing EXCEPT !.pauses = @ + 1]
               ELSE timing
  /\ timing'.pauses <= MaxPauses
  /\ state' = st
  /\ displayMs' = IF ps = NoPractice THEN 0 ELSE displayMs
  /\ UNCHANGED <<error, library, sessions, focusArea, cursorIndex>>
  /\ UNCHANGED <<editVars, asyncVars>>

(***************************************************************************)
(* useSessionEditor's operations, as the panes call them.                  *)
(***************************************************************************)
toggleItem(it) == SetSelected(ToggleItems(selectedItems, it), selectedPanelIndex)

adjustTime(index, delta) ==
  SetSelected(AdjustItems(selectedItems, index, delta), selectedPanelIndex)

removeItem(index) ==
  SetSelected(RemoveItems(selectedItems, index),
              RemoveCursor(selectedPanelIndex, Len(selectedItems)))

moveItem(index, direction) ==
  SetSelected(MoveItems(selectedItems, index, direction),
              MoveCursor(selectedPanelIndex, direction, Len(selectedItems)))

startTimeEdit ==
  IF Len(selectedItems) = 0 THEN Ignored
  ELSE SetTimeEdit(TRUE, <<>>, selectedItems)

appendTimeDigit(name) ==
  IF name \notin DigitNames THEN Ignored
  ELSE SetTimeEdit(isEditingTime, AppendDigit(timeInputValue, DigitOf(name)), selectedItems)

backspaceTimeDigit == SetTimeEdit(isEditingTime, DropLast(timeInputValue), selectedItems)

confirmTimeEdit ==
  SetTimeEdit(FALSE, <<>>, ConfirmItems(selectedItems, selectedPanelIndex, timeInputValue))

cancelTimeEdit == SetTimeEdit(FALSE, <<>>, selectedItems)

\* A faulty variant of clearSession: the picker stays open.
clearSessionStays(focus) ==
  /\ activeSessionId' = Null
  /\ selectedItems' = <<>>
  /\ originalItems' = <<>>
  /\ selectedPanelIndex' = 0
  /\ UNCHANGED <<sessionCursorIndex, isEditingTime, timeInputValue>>
  /\ UNCHANGED <<appVars, timerVars, asyncVars>>

\* clearSession, then the picker's onClose
clearSession(focus) ==
  /\ activeSessionId' = Null
  /\ selectedItems' = <<>>
  /\ originalItems' = <<>>
  /\ selectedPanelIndex' = 0
  /\ focusArea' = focus
  /\ UNCHANGED <<sessionCursorIndex, isEditingTime, timeInputValue>>
  /\ UNCHANGED <<state, error, library, sessions, cursorIndex>>
  /\ UNCHANGED <<timerVars, asyncVars>>

\* selectSession(id) and the loadSessionLogs(id, library) that is not
\* awaited, then the picker's onClose
selectSession(sid, focus) ==
  /\ loads[sid] < MaxPending
  /\ activeSessionId' = sid
  /\ loads' = [loads EXCEPT ![sid] = @ + 1]
  /\ focusArea' = focus
  /\ UNCHANGED <<selectedItems, originalItems, selectedPanelIndex, sessionCursorIndex,
                 isEditingTime, timeInputValue>>
  /\ UNCHANGED <<state, error, library, sessions, cursorIndex>>
  /\ UNCHANGED <<timerVars, job>>

\* the write calls a save started now would issue
SaveOps ==
  IF activeSessionId # Null
  THEN EditOps(selectedItems, originalItems, activeSessionId)
  ELSE CreateOps(selectedItems, Len(storeSessions) + 1)

Creates(ops) == Cardinality({k \in 1..Len(ops) : ops[k].op = "createLog"})

\* saveSession up to its first await
saveSession ==
  IF Len(selectedItems) = 0 /\ activeSessionId = Null THEN Ignored
  ELSE /\ Len(pages) + Creates(SaveOps) <= MaxLogs
       /\ activeSessionId = Null => Len(storeSessions) < MaxSessions
       /\ state' = IF activeSessionId # Null THEN "saving" ELSE "creating"
       /\ job' = [kind |-> "save", pc |-> "calls", ops |-> SaveOps,
                  sid |-> IF activeSessionId # Null THEN activeSessionId
                          ELSE Len(storeSessions) + 1]
       /\ UNCHANGED <<error, library, sessions, focusArea, cursorIndex>>
       /\ UNCHANGED <<editVars, timerVars, loads>>

\* refresh up to its await
refresh ==
  /\ state' = "loading"
  /\ job' = [NoJob EXCEPT !.kind = "refresh", !.pc = "fetch"]
  /\ UNCHANGED <<error, library, sessions, focusArea, cursorIndex>>
  /\ UNCHANGED <<editVars, timerVars, loads>>

(***************************************************************************)
(* Practice timer (app.tsx).                                               *)
(***************************************************************************)
\* decimal minutes n/d in milliseconds: actualMinutes * 60 * 1000
MinutesToMs(q) == (q[1] * 60 * 1000) \div q[2]
\* A faulty variant of MsToMinutes: whole minutes only.
MsToMinutesWhole(ms) == <<ms \div MsPerMinute, 1>>

\* milliseconds in decimal minutes: accumulatedMs / 60000
MsToMinutes(ms) == <<ms, MsPerMinute>>

\* item?.actualMinutes ? item.actualMinutes * 60 * 1000 : 0
ExistingMs(items, itemIndex) ==
  IF InRange(items, itemIndex) /\ At(items, itemIndex).actualMinutes # NoTime
     /\ At(items, itemIndex).actualMinutes[1] # 0
  THEN MinutesToMs(At(items, itemIndex).actualMinutes)
  ELSE 0

\* A faulty variant of startPractice: the state is left as it is.
startPracticeNoTakeover(itemIndex) ==
  SetPractice([itemIndex |-> itemIndex, startTime |-> now,
               accumulatedMs |-> ExistingMs(selectedItems, itemIndex),
               isPaused |-> FALSE, isConfirming |-> FALSE], state)

startPractice(itemIndex) ==
  SetPractice([itemIndex |-> itemIndex, startTime |-> now,
               accumulatedMs |-> ExistingMs(selectedItems, itemIndex),
               isPaused |-> FALSE, isConfirming |-> FALSE], "practicing")

\* A faulty variant of Toggled: resuming forgets what was accumulated.
ToggledResets(ps, t) ==
  IF ps.isPaused
  THEN [ps EXCEPT !.startTime = t, !.accumulatedMs = 0, !.isPaused = FALSE]
  ELSE [ps EXCEPT !.accumulatedMs = @ + (t - ps.startTime), !.isPaused = TRUE]

\* the PracticeState after togglePausePractice
Toggled(ps, t) ==
  IF ps.isPaused
  THEN [ps EXCEPT !.startTime = t, !.isPaused = FALSE]
  ELSE [ps EXCEPT !.accumulatedMs = @ + (t - ps.startTime), !.isPaused = TRUE]

togglePausePractice ==
  IF practiceState = NoPractice THEN Ignored
  ELSE SetPractice(Toggled(practiceState, now), state)

\* A faulty variant of Stopped: the running segment is not added.
StoppedNoFold(ps, t) ==
  [ps EXCEPT !.isPaused = TRUE, !.isConfirming = TRUE]

\* the PracticeState after requestStopPractice
Stopped(ps, t) ==
  IF ~ps.isPaused
  THEN [ps EXCEPT !.accumulatedMs = @ + (t - ps.startTime), !.isPaused = TRUE,
                  !.isConfirming = TRUE]
  ELSE [ps EXCEPT !.isConfirming = TRUE]

requestStopPractice ==
  IF practiceState = NoPractice THEN Ignored
  ELSE SetPractice(Stopped(practiceState, now), state)

cancelConfirmPractice ==
  IF practiceState = NoPractice THEN Ignored
  ELSE SetPractice([practiceState EXCEPT !.isConfirming = FALSE], state)

cancelPractice == SetPractice(NoPractice, "browse")

\* the item whose log confirmSavePractice writes
TimedItem == IF InRange(selectedItems, practiceState.itemIndex)
             THEN At(selectedItems, practiceState.itemIndex) ELSE Hole

\* A faulty variant of confirmSavePractice: the state stays practicing.
confirmSavePracticeNotBusy ==
  IF practiceState = NoPractice THEN Ignored
  ELSE IF TimedItem.logId = Null THEN cancelPractice
  ELSE /\ job' = [kind |-> "confirm", pc |-> "calls",
                  ops |-> <<Call("updateLog", TimedItem.logId, Null, Null, Null, Null,
                                 MsToMinutes(practiceState.accumulatedMs))>>,
                  sid |-> activeSessionId]
       /\ UNCHANGED <<appVars, editVars, timerVars, loads>>

\* confirmSavePractice up to its first await
confirmSavePractice ==
  IF practiceState = NoPractice THEN Ignored
  ELSE IF TimedItem.logId = Null THEN cancelPractice
  ELSE /\ state' = "saving"
       /\ job' = [kind |-> "confirm", pc |-> "calls",
                  ops |-> <<Call("updateLog", TimedItem.logId, Null, Null, Null, Null,
                                 MsToMinutes(practiceState.accumulatedMs))>>,
                  sid |-> activeSessionId]
       /\ UNCHANGED <<error, library, sessions, focusArea, cursorIndex>>
       /\ UNCHANGED <<editVars, timerVars, loads>>

\* A faulty variant of practiceHandler: space pauses and resumes while
\* confirming too.
practiceHandlerTogglesAlways(key) ==
  IF key.name = "space" THEN togglePausePractice
  ELSE IF practiceState.isConfirming
  THEN CASE key.name = "y" -> confirmSavePractice
         [] key.name = "n" -> cancelConfirmPractice
         [] key.name = "escape" -> cancelPractice
         [] OTHER -> Ignored
  ELSE CASE key.name = "return" -> requestStopPractice
         [] key.name = "escape" -> cancelPractice
         [] OTHER -> Ignored

\* A faulty variant of practiceHandler: no cancel while confirming.
practiceHandlerNoCancel(key) ==
  IF practiceState.isConfirming
  THEN CASE key.name = "y" -> confirmSavePractice
         [] key.name = "n" -> cancelConfirmPractice
         [] OTHER -> Ignored
  ELSE CASE key.name = "space" -> togglePausePractice
         [] key.name = "return" -> requestStopPractice
         [] key.name = "escape" -> cancelPractice
         [] OTHER -> Ignored

\* createPracticeKeyHandler
practiceHandler(key) ==
  IF practiceState.isConfirming
  THEN CASE key.name = "y" -> confirmSavePractice
         [] key.name = "n" -> cancelConfirmPractice
         [] key.name = "escape" -> cancelPractice
         [] OTHER -> Ignored
  ELSE CASE key.name = "space" -> togglePausePractice
         [] key.name = "return" -> requestStopPractice
         [] key.name = "escape" -> cancelPractice
         [] OTHER -> Ignored

(***************************************************************************)
(* The panes' key handlers.                                                *)
(***************************************************************************)
\* createLibraryKeyHandler; sorting and filtering only reset the cursor here
libraryHandler(key) ==
  IF key.ctrl /\ key.name = "f"
  THEN SetCursorIndex(Min(Len(FilteredItems) - 1, cursorIndex + 12))
  ELSE IF key.ctrl /\ key.name = "b" THEN SetCursorIndex(Max(0, cursorIndex - 12))
  ELSE CASE key.name \in {"up", "k"} -> SetCursorIndex(Max(0, cursorIndex - 1))
         [] key.name \in {"down", "j"} ->
              SetCursorIndex(Min(Len(FilteredItems) - 1, cursorIndex + 1))
         [] key.name \in {"space", "return"} ->
              IF InRange(FilteredItems, cursorIndex)
              THEN toggleItem(At(FilteredItems, cursorIndex))
              ELSE Ignored
         [] key.name = "/" -> SetFocus("search")
         [] key.name \in {"1", "2", "3", "f"} -> SetCursorIndex(0)
         [] OTHER -> Ignored

\* createSearchKeyHandler: Ctrl+w clears the search text, which is not modelled
searchHandler(key) == Ignored

\* createSessionPickerKeyHandler; onClose is closeSessionPicker
sessionPickerHandler(key) ==
  CASE key.name \in {"up", "k"} ->
         /\ sessionCursorIndex' = Max(0, sessionCursorIndex - 1)
         /\ UNCHANGED <<selectedItems, originalItems, activeSessionId, selectedPanelIndex,
                        isEditingTime, timeInputValue>>
         /\ UNCHANGED <<appVars, timerVars, asyncVars>>
    [] key.name \in {"down", "j"} ->
         /\ sessionCursorIndex' = Min(Len(sessions), sessionCursorIndex + 1)
         /\ UNCHANGED <<selectedItems, originalItems, activeSessionId, selectedPanelIndex,
                        isEditingTime, timeInputValue>>
         /\ UNCHANGED <<appVars, timerVars, asyncVars>>
    [] key.name \in {"space", "return"} ->
         IF sessionCursorIndex = 0 THEN clearSession("list")
         ELSE IF InRange(sessions, sessionCursorIndex - 1)
              THEN selectSession(At(sessions, sessionCursorIndex - 1), "list")
              ELSE SetFocus("list")
    [] key.name = "escape" -> SetFocus("list")
    [] OTHER -> Ignored

\* createSelectedKeyHandler
selectedHandler(key) ==
  IF isEditingTime
  THEN CASE key.name = "return" -> confirmTimeEdit
         [] key.name = "escape" -> cancelTimeEdit
         [] key.name = "backspace" -> backspaceTimeDigit
         [] key.name \in DigitNames -> appendTimeDigit(key.name)
         [] OTHER -> Ignored
  ELSE IF key.shift /\ key.name \in {"k", "K"} THEN moveItem(selectedPanelIndex, "up")
  ELSE IF key.shift /\ key.name \in {"j", "J"} THEN moveItem(selectedPanelIndex, "down")
  ELSE CASE key.name \in {"up", "k"} ->
              SetSelected(selectedItems, Max(0, selectedPanelIndex - 1))
         [] key.name \in {"down", "j"} ->
              SetSelected(selectedItems, Min(Len(selectedItems) - 1, selectedPanelIndex + 1))
         [] key.name \in {"=", "+", "]"} -> adjustTime(selectedPanelIndex, 1)
         [] key.name \in {"-", "["} -> adjustTime(selectedPanelIndex, -1)
         [] key.name \in {"x", "d"} -> removeItem(selectedPanelIndex)
         [] key.name = "t" -> startTimeEdit
         [] key.name = "p" ->
              IF InRange(selectedItems, selectedPanelIndex)
                 /\ At(selectedItems, selectedPanelIndex).logId # Null
              THEN startPractice(selectedPanelIndex)
              ELSE Ignored
         [] OTHER -> Ignored

(***************************************************************************)
(* App's useKeyboard callback.                                             *)
(***************************************************************************)
\* A faulty variant of Blocked: the shortcuts are live in the picker.
BlockedInSearchOnly == focusArea = "search"

Blocked == focusArea \in {"search", "sessionPicker"}

\* A faulty variant of NextPane: the selection pane is entered when empty.
NextPaneNoSkip(f, items) ==
  IF f = "list" THEN "selected" ELSE IF f = "selected" THEN "search" ELSE "list"

\* the updater of the Tab shortcut
NextPane(f, items) ==
  IF f = "list" THEN (IF Len(items) > 0 THEN "selected" ELSE "search")
  ELSE IF f = "selected" THEN "search" ELSE "list"

useKeyboard(key) ==
  IF state = "practicing" /\ practiceState # NoPractice THEN practiceHandler(key)
  ELSE IF state # "browse" THEN Ignored
  ELSE IF key.name = "tab" /\ focusArea # "sessionPicker"
    THEN SetFocus(NextPane(focusArea, selectedItems))
  ELSE IF key.name = "escape" /\ focusArea # "search" THEN SetFocus("list")
  ELSE IF key.name = "e" /\ ~Blocked THEN SetFocus("sessionPicker")
  ELSE IF key.name = "s" /\ ~Blocked
    THEN (IF Len(selectedItems) > 0 THEN saveSession ELSE Ignored)
  ELSE IF key.name = "r" /\ ~Blocked THEN refresh
  ELSE IF key.ctrl /\ key.name = "h" /\ focusArea # "sessionPicker"
    THEN SetFocus(IF focusArea = "selected" THEN "list" ELSE focusArea)
  ELSE IF key.ctrl /\ key.name = "l" /\ focusArea # "sessionPicker"
    THEN SetFocus(IF focusArea \in {"list", "search"} /\ Len(selectedItems) > 0
                  THEN "selected" ELSE focusArea)
  ELSE IF key.ctrl /\ key.name = "k" /\ focusArea # "sessionPicker" THEN SetFocus("search")
  ELSE IF key.ctrl /\ key.name = "j" /\ focusArea = "search" THEN SetFocus("list")
  ELSE CASE focusArea = "list" -> libraryHandler(key)
         [] focusArea = "search" -> searchHandler(key)
         [] focusArea = "sessionPicker" -> sessionPickerHandler(key)
         [] focusArea = "selected" -> selectedHandler(key)

(***************************************************************************)
(* The callback as a list of clauses, in the order of the code: a clause   *)
(* is entered when its condition holds, invokes a handler or not, and      *)
(* returns or falls through to the clauses behind it.                      *)
(***************************************************************************)
Clause(name, entered, handles, returns) ==
  [name |-> name, entered |-> entered, handles |-> handles, returns |-> returns]

\* A faulty variant of EscapeReturns: the Escape clause falls through.
EscapeFallsThrough(focus) == FALSE

\* the Escape clause returns from both of its inner branches only
EscapeReturns(focus) == focus = "sessionPicker" \/ focus # "search"

PaneNames == {"list", "search", "sessionPicker", "selected"}

DispatchClauses(key) ==
  <<Clause("practice", state = "practicing" /\ practiceState # NoPractice, TRUE, TRUE),
    Clause("guard", state # "browse", FALSE, TRUE),
    Clause("tab", key.name = "tab" /\ focusArea # "sessionPicker", TRUE, TRUE),
    Clause("escape", key.name = "escape", focusArea # "search", EscapeReturns(focusArea)),
    Clause("e", key.name = "e" /\ ~Blocked, TRUE, TRUE),
    Clause("s", key.name = "s" /\ ~Blocked, TRUE, TRUE),
    Clause("r", key.name = "r" /\ ~Blocked, TRUE, TRUE),
    Clause("ctrl-h", key.ctrl /\ key.name = "h" /\ focusArea # "sessionPicker", TRUE, TRUE),
    Clause("ctrl-l", key.ctrl /\ key.name = "l" /\ focusArea # "sessionPicker", TRUE, TRUE),
    Clause("ctrl-k", key.ctrl /\ key.name = "k" /\ focusArea # "sessionPicker", TRUE, TRUE),
    Clause("ctrl-j", key.ctrl /\ key.name = "j" /\ focusArea = "search", TRUE, TRUE),
    Clause(focusArea, TRUE, TRUE, TRUE)>>

\* the handlers one run of the callback invokes, from clause k on
RECURSIVE Handlers(_, _)
Handlers(clauses, k) ==
  IF k > Len(clauses) THEN <<>>
  ELSE IF ~clauses[k].entered THEN Handlers(clauses, k + 1)
  ELSE (IF clauses[k].handles THEN <<clauses[k].name>> ELSE <<>>)
       \o (IF clauses[k].returns THEN <<>> ELSE Handlers(clauses, k + 1))

Dispatch(key) == Handlers(DispatchClauses(key), 1)

\* the boolean a pane's handler, or the timer's, returns for the key
Consumes(h, key) ==
  CASE h = "practice" -> TRUE
    [] h = "list" ->
         \/ key.ctrl /\ key.name \in {"f", "b"}
         \/ key.name \in {"up", "k", "down", "j", "space", "return", "/", "o",
                           "1", "2", "3", "f"}
    [] h = "search" -> key.ctrl /\ key.name = "w"
    [] h = "sessionPicker" ->
         key.name \in {"up", "k", "down", "j", "space", "return", "escape"}
    [] h = "selected" ->
         \/ isEditingTime
         \/ key.shift /\ key.name \in {"k", "K", "j", "J"}
         \/ key.name \in {"up", "k", "down", "j", "=", "+", "]", "-", "[", "x", "d",
                           "t", "o", "p"}
    [] OTHER -> TRUE

(***************************************************************************)
(* Steps.                                                                  *)
(***************************************************************************)
\* The keys a specification types.  Each specification starts from Init and
\* differs in the keys it types and in whether the clock advances.
KeysOf(plain, ctrl, shift) ==
  {KeyEvent(n, FALSE, FALSE) : n \in plain}
  \cup {KeyEvent(n, TRUE, FALSE) : n \in ctrl}
  \cup {KeyEvent(n, FALSE, TRUE) : n \in shift}

\* editing a stored session: the picker and the selection pane
Keys == KeysOf({"tab", "return", "e", "s", "j", "x", "+"}, {}, {"J", "K"})
\* composing a new session from the library
CreateKeys == KeysOf({"tab", "space", "s", "j", "x"}, {}, {"J", "K"})

\* entering exact durations for the first item of the library
TimeEditKeys ==
  KeysOf({"space", "tab", "escape", "t", "0", "1", "9", "backspace", "return"}, {}, {})

\* timing an entry of a stored session
TimerKeys == KeysOf({"e", "return", "tab", "j", "p", "space", "escape", "y", "n"}, {}, {})

\* moving between the panes, the picker and the timer; z is bound nowhere
FocusKeys ==
  KeysOf({"tab", "escape", "e", "/", "space", "return", "j", "p", "z"},
         {"h", "l", "k", "j"}, {})

\* composing a session, saving it, timing an entry and confirming the time
BusyKeys == KeysOf({"space", "tab", "s", "j", "p", "return", "y", "escape"}, {}, {})

\* saving, refreshing and opening the picker from every pane
OverrideKeys == KeysOf({"tab", "e", "s", "r", "/", "return", "j", "x"}, {}, {})

\* editing a stored session again after a save was aborted
RestartKeys == KeysOf({"tab", "return", "e", "s", "j", "x"}, {}, {"J"})

\* every editing operation on a stored session, with saves and reloads
EditKeys == KeysOf({"tab", "return", "e", "s", "j", "x", "+", "t", "4"}, {}, {"J"})

\* adjusting the planned minutes of a loaded session, down to the floor
AdjustKeys == KeysOf({"e", "j", "return", "tab", "+", "-", "x"}, {}, {})
\* planned minutes stay within 1..MaxPlanned
PlannedUpTo(items) ==
  \A i \in 1..Len(items) : items[i] = Hole \/ items[i].plannedMinutes <= MaxPlanned

\* toggling items of the library into a stored session and saving it
ToggleKeys == KeysOf({"return", "e", "j", "k", "s"}, {}, {})

\* saving, refreshing, timing an entry and confirming the time
FailKeys == KeysOf({"tab", "return", "e", "j", "x", "s", "r", "p", "y"}, {}, {})

\* planned minutes stay within MinPlanned..MaxPlanned
MinPlanned == DefaultMinutes - 1
PlannedWithin(items) ==
  \A i \in 1..Len(items) :
    items[i] = Hole \/ (items[i].plannedMinutes >= MinPlanned
                        /\ items[i].plannedMinutes <= MaxPlanned)

\* the key reaches the save shortcut of useKeyboard
SaveRequested(key) ==
  /\ ~(state = "practicing" /\ practiceState # NoPractice)
  /\ state = "browse"
  /\ key.name = "s" /\ ~Blocked

Snapshot(kind, outcome) ==
  [kind |-> kind, sel |-> selectedItems, orig |-> originalItems, sid |-> activeSessionId,
   clean |-> clean, outcome |-> outcome]

DataUnchanged ==
  /\ selectedItems' = selectedItems
  /\ originalItems' = originalItems
  /\ activeSessionId' = activeSessionId

\* One key event, processed to completion; the render that follows throws
\* when totalMinutes meets an undefined slot.
Key(key) ==
  /\ ~crashed
  /\ useKeyboard(key)
  /\ crashed' = TotalThrows(selectedItems')
  /\ UNCHANGED <<now, storeVars, aborted>>
  /\ clean' = (clean /\ DataUnchanged)
  /\ IF job.kind # "none" THEN UNCHANGED <<calls, last>>
     ELSE /\ calls' = <<>>
          /\ last' = IF job'.kind # "none" THEN Snapshot(job'.kind, "running")
                     ELSE IF SaveRequested(key) THEN Snapshot("save", "skipped")
                     ELSE NoLast

\* A faulty variant of JobFail: the message is set and the state is browse.
JobFailBrowse(msg) ==
  /\ error' = msg
  /\ state' = "browse"
  /\ job' = NoJob
  /\ practiceState' = IF job.kind = "confirm" THEN NoPractice ELSE practiceState
  /\ displayMs' = IF job.kind = "confirm" THEN 0 ELSE displayMs
  /\ timing' = IF job.kind = "confirm" THEN NoTiming ELSE timing
  /\ last' = [last EXCEPT !.outcome = "failed"]
  /\ aborted' = (aborted \/ job.kind = "save")
  /\ UNCHANGED <<library, sessions, focusArea, cursorIndex, editVars, now, loads, crashed, clean>>

\* A faulty variant of JobFail: the error is shown and the job goes on.
JobFailGoesOn(msg) ==
  /\ error' = msg
  /\ state' = "error"
  /\ last' = [last EXCEPT !.outcome = "failed"]
  /\ aborted' = (aborted \/ job.kind = "save")
  /\ UNCHANGED <<job, timerVars>>
  /\ UNCHANGED <<library, sessions, focusArea, cursorIndex, editVars, now, loads, crashed, clean>>

\* the catch block of the job, and confirmSavePractice's last statement
JobFail(msg) ==
  /\ error' = msg
  /\ state' = "error"
  /\ job' = NoJob
  /\ practiceState' = IF job.kind = "confirm" THEN NoPractice ELSE practiceState
  /\ displayMs' = IF job.kind = "confirm" THEN 0 ELSE displayMs
  /\ timing' = IF job.kind = "confirm" THEN NoTiming ELSE timing
  /\ last' = [last EXCEPT !.outcome = "failed"]
  /\ aborted' = (aborted \/ job.kind = "save")
  /\ UNCHANGED <<library, sessions, focusArea, cursorIndex, editVars, now, loads, crashed, clean>>

FailMessage == CASE job.kind = "mount" -> "Failed to load data"
                 [] job.kind = "refresh" -> "Failed to refresh"
                 [] job.kind = "save" -> "Failed to save session"
                 [] job.kind = "confirm" -> "Failed to save"

\* A faulty variant of FetchAll: when the session fetch rejects, the catalog
\* that was fetched is kept.
FetchAllPartial ==
  /\ ~crashed /\ job.pc = "fetch"
  /\ \/ /\ library' = StoreLibrary
        /\ sessions' = storeSessions
        /\ state' = "browse"
        /\ job' = NoJob
        /\ last' = [last EXCEPT !.outcome = "done"]
        /\ UNCHANGED <<error, focusArea, cursorIndex, editVars, timerVars, now, loads,
                       crashed, clean, aborted>>
     \/ /\ library' = SubSeq(StoreLibrary, 1, 1)
        /\ error' = FailMessage /\ state' = "error" /\ job' = NoJob
        /\ last' = [last EXCEPT !.outcome = "failed"]
        /\ UNCHANGED <<sessions, focusArea, cursorIndex, editVars, timerVars, now, loads,
                       crashed, clean, aborted>>
  /\ UNCHANGED <<storeVars, calls>>

\* the mount effect's and refresh's Promise.all resolves or rejects
FetchAll ==
  /\ ~crashed /\ job.pc = "fetch"
  /\ \/ /\ library' = StoreLibrary
        /\ sessions' = storeSessions
        /\ state' = "browse"
        /\ job' = NoJob
        /\ last' = [last EXCEPT !.outcome = "done"]
        /\ UNCHANGED <<error, focusArea, cursorIndex, editVars, timerVars, now, loads,
                       crashed, clean, aborted>>
     \/ JobFail(FailMessage) /\ UNCHANGED calls
  /\ UNCHANGED <<storeVars, calls>>

\* the job is over: setState("browse"), and setPracticeState(null) of a confirm;
\* items and orig are what loadSessionLogs set, or the values as they were
\* a job whose last step leaves the phase as it is
FinishedStaysBusy(items, orig, cursor) ==
  /\ selectedItems' = items
  /\ originalItems' = orig
  /\ selectedPanelIndex' = cursor
  /\ state' = state
  /\ job' = NoJob
  /\ practiceState' = IF job.kind = "confirm" THEN NoPractice ELSE practiceState
  /\ displayMs' = IF job.kind = "confirm" THEN 0 ELSE displayMs
  /\ timing' = IF job.kind = "confirm" THEN NoTiming ELSE timing
  /\ last' = [last EXCEPT !.outcome = "done"]
  /\ crashed' = crashed /\ aborted' = aborted
  /\ UNCHANGED <<error, library, sessions, focusArea, cursorIndex, now, loads>>
  /\ UNCHANGED <<isEditingTime, timeInputValue>>

Finished(items, orig, cursor) ==
  /\ selectedItems' = items
  /\ originalItems' = orig
  /\ selectedPanelIndex' = cursor
  /\ state' = "browse"
  /\ job' = NoJob
  /\ practiceState' = IF job.kind = "confirm" THEN NoPractice ELSE practiceState
  /\ displayMs' = IF job.kind = "confirm" THEN 0 ELSE displayMs
  /\ timing' = IF job.kind = "confirm" THEN NoTiming ELSE timing
  /\ last' = [last EXCEPT !.outcome = "done"]
  /\ crashed' = crashed /\ aborted' = aborted
  /\ UNCHANGED <<error, library, sessions, focusArea, cursorIndex, now, loads>>
  /\ UNCHANGED <<isEditingTime, timeInputValue>>

\* one awaited write call of the job resolves or rejects
WriteCall ==
  /\ ~crashed /\ job.pc = "calls" /\ job.ops # <<>>
  /\ LET c == Head(job.ops)
     IN /\ calls' = Append(calls, c)
        /\ \/ /\ pages' = StoreApply(pages, c)
              /\ storeSessions' = IF c.op = "createSession"
                                  THEN StoreCreateSession(storeSessions) ELSE storeSessions
              /\ IF job.kind = "confirm" /\ job.sid = Null
                 THEN /\ Finished(selectedItems, originalItems, selectedPanelIndex)
                      /\ UNCHANGED <<activeSessionId, sessionCursorIndex>>
                      /\ clean' = clean
                 ELSE /\ job' = [job EXCEPT !.ops = Tail(@)]
                      /\ UNCHANGED <<appVars, editVars, timerVars, now, loads, crashed,
                                     last, clean, aborted>>
           \/ JobFail(FailMessage) /\ UNCHANGED storeVars

\* saveSession's fetchPracticeSessions resolves or rejects
FetchSessions ==
  /\ ~crashed /\ job.kind = "save" /\ job.pc = "calls" /\ job.ops = <<>>
  /\ \/ /\ sessions' = storeSessions
        /\ activeSessionId' = job.sid
        /\ job' = [job EXCEPT !.pc = "logs"]
        /\ clean' = (clean /\ activeSessionId = job.sid)
        /\ UNCHANGED <<state, error, library, focusArea, cursorIndex, timerVars, now, loads,
                       crashed, last, aborted>>
        /\ UNCHANGED <<selectedItems, originalItems, selectedPanelIndex, sessionCursorIndex,
                       isEditingTime, timeInputValue>>
     \/ JobFail(FailMessage)
  /\ UNCHANGED <<storeVars, calls>>

\* the awaited loadSessionLogs of a save or of a timer confirm resolves or
\* rejects
ReloadLogs ==
  /\ ~crashed
  /\ \/ job.kind = "save" /\ job.pc = "logs"
     \/ job.kind = "confirm" /\ job.pc = "calls" /\ job.ops = <<>>
  /\ \/ /\ LET items == LoadItems(FetchLogs(pages, job.sid), library)
           IN Finished(items, DeepCopy(items), 0)
        /\ sessionCursorIndex' = IF job.kind = "save" /\ last.sid = Null
                                 THEN CreatedCursor ELSE sessionCursorIndex
        /\ UNCHANGED activeSessionId
        /\ clean' = IF job.kind = "save" THEN TRUE ELSE (clean /\ DataUnchanged)
     \/ JobFail(FailMessage)
  /\ UNCHANGED <<storeVars, calls>>

\* a loadSessionLogs started by the session picker resolves
PickerLoad ==
  /\ ~crashed
  /\ \E sid \in SessionIds :
       /\ loads[sid] > 0
       /\ loads' = [loads EXCEPT ![sid] = @ - 1]
       /\ selectedItems' = LoadItems(FetchLogs(pages, sid), library)
       /\ originalItems' = DeepCopy(selectedItems')
       /\ selectedPanelIndex' = 0
  /\ UNCHANGED <<activeSessionId, sessionCursorIndex, isEditingTime, timeInputValue>>
  /\ clean' = (clean /\ DataUnchanged)
  /\ UNCHANGED <<appVars, timerVars, now, storeVars, job, crashed, calls, last, aborted>>

\* a loadSessionLogs started by the session picker rejects; nothing awaits it
PickerLoadFails ==
  /\ ~crashed
  /\ \E sid \in SessionIds :
       /\ loads[sid] > 0
       /\ loads' = [loads EXCEPT ![sid] = @ - 1]
  /\ UNCHANGED <<appVars, editVars, timerVars, now, storeVars, job, crashed, histVars>>

\* time passes while a PracticeState exists
Tick ==
  /\ ~crashed /\ practiceState # NoPractice /\ now < MaxNow
  /\ now' = now + 1
  /\ timing' = IF practiceState.isPaused THEN timing ELSE [timing EXCEPT !.ran = @ + 1]
  /\ UNCHANGED <<appVars, editVars, practiceState, displayMs, storeVars, job, loads, crashed,
                 histVars>>

\* PracticeMode's updateDisplay, every 100 ms while the component is shown
DisplayTick ==
  /\ ~crashed /\ state = "practicing" /\ practiceState # NoPractice
  /\ TimedItem # Hole
  /\ displayMs' = IF practiceState.isPaused THEN practiceState.accumulatedMs
                  ELSE practiceState.accumulatedMs + (now - practiceState.startTime)
  /\ UNCHANGED <<appVars, editVars, practiceState, timing, now, storeVars, job, loads,
                 crashed, histVars>>

\* the error screen is left by ending the process; the composer is started
\* again on the store as the calls so far left it
Restart ==
  /\ state = "error"
  /\ state' = "loading" /\ error' = "none" /\ library' = <<>> /\ sessions' = <<>>
  /\ focusArea' = "list" /\ cursorIndex' = 0 /\ practiceState' = NoPractice
  /\ selectedItems' = <<>> /\ originalItems' = <<>> /\ activeSessionId' = Null
  /\ selectedPanelIndex' = 0 /\ sessionCursorIndex' = 0
  /\ isEditingTime' = FALSE /\ timeInputValue' = <<>>
  /\ displayMs' = 0 /\ timing' = NoTiming
  /\ job' = [NoJob EXCEPT !.kind = "mount", !.pc = "fetch"]
  /\ loads' = NoLoads /\ crashed' = FALSE
  /\ calls' = <<>> /\ last' = NoLast /\ clean' = FALSE
  /\ UNCHANGED <<now, storeVars, aborted>>

\* what the API and the store do, whatever the user types
Resolve ==
  \/ FetchAll
  \/ WriteCall
  \/ FetchSessions
  \/ ReloadLogs

Next ==
  \/ \E key \in Keys : Key(key) /\ PlannedWithin(selectedItems')
  \/ Resolve
  \/ PickerLoad
  \/ PickerLoadFails

Spec == Init /\ [][Next]_vars

NextCreate ==
  \/ \E key \in CreateKeys : Key(key) /\ PlannedWithin(selectedItems')
  \/ Resolve

SpecCreate == InitEmpty /\ [][NextCreate]_vars

NextTimeEdit ==
  \/ \E key \in TimeEditKeys : Key(key)
  \/ FetchAll

SpecTimeEdit == Init /\ [][NextTimeEdit]_vars

NextTimer ==
  \/ \E key \in TimerKeys : Key(key)
  \/ FetchAll
  \/ WriteCall
  \/ ReloadLogs
  \/ PickerLoad
  \/ PickerLoadFails
  \/ Tick
  \/ DisplayTick

SpecTimer == Init /\ [][NextTimer]_vars

SpecTimerTwo == InitTwo /\ [][NextTimer]_vars

NextBusy ==
  \/ \E key \in BusyKeys : Key(key)
  \/ Resolve

SpecBusy == InitEmpty /\ [][NextBusy]_vars

NextOverride ==
  \/ \E key \in OverrideKeys : Key(key)
  \/ Resolve
  \/ PickerLoad
  \/ PickerLoadFails

SpecOverride == Init /\ [][NextOverride]_vars

NextRestart ==
  \/ \E key \in RestartKeys : Key(key)
  \/ Resolve
  \/ PickerLoad
  \/ PickerLoadFails
  \/ Restart

SpecRestart == Init /\ [][NextRestart]_vars

NextEdit ==
  \/ \E key \in EditKeys : Key(key) /\ PlannedWithin(selectedItems')
  \/ Resolve
  \/ PickerLoad
  \/ PickerLoadFails

SpecEdit == Init /\ [][NextEdit]_vars

NextAdjust ==
  \/ \E key \in AdjustKeys : Key(key) /\ PlannedUpTo(selectedItems')
  \/ FetchAll
  \/ PickerLoad
  \/ PickerLoadFails

SpecAdjust == InitLow /\ [][NextAdjust]_vars

NextToggle ==
  \/ \E key \in ToggleKeys : Key(key)
  \/ Resolve
  \/ PickerLoad
  \/ PickerLoadFails

SpecToggle == InitOne /\ [][NextToggle]_vars

NextFail ==
  \/ \E key \in FailKeys : Key(key)
  \/ Resolve
  \/ PickerLoad
  \/ PickerLoadFails

\* every request is answered and the user goes on typing: a step is taken
\* whenever one can change the state
SpecFail == Init /\ [][NextFail]_vars /\ WF_vars(NextFail)

NextFocus ==
  \/ \E key \in FocusKeys : Key(key)
  \/ FetchAll
  \/ PickerLoad
  \/ PickerLoadFails

SpecFocus == Init /\ [][NextFocus]_vars

(***************************************************************************)
(* Saving.  calls holds the write calls of the job in progress or just     *)
(* over, last what saveSession's closure held when it was requested.       *)
(***************************************************************************)
SaveDone == last.kind = "save" /\ last.outcome = "done"
EditDone == SaveDone /\ last.sid # Null
CallsOf(op) == SelectSeq(calls, LAMBDA c : c.op = op)
UpdatesOf(lid) == SelectSeq(calls, LAMBDA c : c.op = "updateLog" /\ c.logId = lid)
DeletesOf(lid) == SelectSeq(calls, LAMBDA c : c.op = "deleteLog" /\ c.logId = lid)
\* the baseline entries with a log whose log is no longer in the working set
Removed(sel, orig) ==
  {k \in 1..Len(orig) : orig[k].logId # Null /\ orig[k].logId \notin CurrentIds(sel)}

\* C1: a completed save of a non-empty working set with no active session
\* issues one createSession call, then one createLog call per entry, the
\* i-th naming the new session, the i-th item and its planned duration and
\* carrying order = i, and no other call.
C1_CreateCallsCarryOrder ==
  (SaveDone /\ last.sid = Null) =>
    calls = <<Call("createSession", Null, activeSessionId, Null, Null, Null, NoTime)>>
            \o [k \in 1..Len(last.sel) |->
                  Call("createLog", Null, activeSessionId, last.sel[k].item,
                       last.sel[k].plannedMinutes, k - 1, NoTime)]

C1_Witness == SaveDone /\ last.sid = Null /\ Len(last.sel) >= 2 /\ Len(calls) = 3

\* C2: a save requested on an active session right after a completed save,
\* with nothing changed in between, issues no call at all; and no save on an
\* active session issues an update for an entry whose planned duration and
\* position equal those of its baseline entry.
C2_SaveTwiceIsSilent ==
  (last.kind = "save" /\ last.sid # Null) =>
    /\ last.clean => calls = <<>>
    /\ \A i \in 0..(Len(last.sel) - 1) :
         LET item == At(last.sel, i)
             originalIndex == OriginalIndex(last.orig, item.logId)
         IN (/\ item.logId # Null
             /\ originalIndex = i
             /\ At(last.orig, originalIndex).plannedMinutes = item.plannedMinutes)
            => UpdatesOf(item.logId) = <<>>

C2_Witness ==
  /\ SaveDone /\ last.sid # Null /\ last.clean
  /\ Len(last.sel) >= 2 /\ activeSessionId = last.sid

\* C3: after a save request on an active session, every baseline entry with
\* a log that was removed from the working set has got exactly one deleteLog
\* call, and no other deleteLog call was issued; also when the removals left
\* the working set empty.
C3_RemovedAreDeleted ==
  (last.kind = "save" /\ last.sid # Null /\ last.outcome \in {"done", "skipped"}) =>
    /\ \A k \in Removed(last.sel, last.orig) : Len(DeletesOf(last.orig[k].logId)) = 1
    /\ Len(CallsOf("deleteLog")) = Cardinality(Removed(last.sel, last.orig))

C3_Witness ==
  /\ EditDone /\ Removed(last.sel, last.orig) # {}
  /\ \E i \in 1..Len(last.sel) : last.sel[i].logId = Null

\* the order-only update of the entry that moved to position i
OrderUpdate(lid, i) == Call("updateLog", lid, Null, Null, Null, i, NoTime)
\* the working set is the baseline without its entry at position p
RemovedAt(p) == InRange(last.orig, p) /\ last.sel = RemoveItems(last.orig, p)

\* C4: a completed save after one persisted entry was removed from position
\* p of n and nothing else changed issues the delete of that entry, then one
\* order-only update for each of the n - 1 - p entries behind it, and no
\* create; the delete is the only call exactly when the last entry went.
C4_RemoveOneRenumbers ==
  EditDone =>
    \A p \in 0..(Len(last.orig) - 1) :
      RemovedAt(p) =>
        calls = <<Call("deleteLog", At(last.orig, p).logId, Null, Null, Null, Null, NoTime)>>
                \o [k \in 1..(Len(last.orig) - 1 - p) |->
                      OrderUpdate(At(last.orig, p + k).logId, p + k - 1)]

\* three logs were loaded, removeItem(1), save: one delete and one update
C4_Witness ==
  /\ EditDone /\ Len(last.orig) = 3 /\ RemovedAt(1)
  /\ Len(CallsOf("deleteLog")) = 1 /\ Len(CallsOf("updateLog")) = 1

\* C4 as the specification states it: one delete and nothing else, whatever
\* the position of the removed entry.
C4_RemoveOneDeletesOnly ==
  EditDone =>
    \A p \in 0..(Len(last.orig) - 1) :
      RemovedAt(p) =>
        calls = <<Call("deleteLog", At(last.orig, p).logId, Null, Null, Null, Null, NoTime)>>

\* C5: in a completed save on an active session, an entry with a log gets
\* one updateLog call when its planned duration or its position differs
\* from its baseline entry and none otherwise; the call carries the planned
\* duration iff the duration changed and the order iff the position changed.
\* With a baseline [A, B] and moveItem(0, down) the save issues two
\* order-only updates and nothing else.
C5_UpdatesCarryWhatChanged ==
  EditDone =>
    /\ \A i \in 0..(Len(last.sel) - 1) :
         LET item == At(last.sel, i)
             originalIndex == OriginalIndex(last.orig, item.logId)
             timeChanged == At(last.orig, originalIndex).plannedMinutes # item.plannedMinutes
             orderChanged == originalIndex # i
         IN (item.logId # Null /\ originalIndex # -1) =>
              UpdatesOf(item.logId) =
                IF timeChanged \/ orderChanged
                THEN <<Call("updateLog", item.logId, Null, Null,
                            IF timeChanged THEN item.plannedMinutes ELSE Null,
                            IF orderChanged THEN i ELSE Null, NoTime)>>
                ELSE <<>>
    /\ (Len(last.orig) = 2 /\ last.sel = <<last.orig[2], last.orig[1]>>) =>
         calls = <<OrderUpdate(last.sel[1].logId, 0), OrderUpdate(last.sel[2].logId, 1)>>

\* a save of a moved entry whose duration changed too
C5_Witness ==
  /\ EditDone
  /\ \E c \in {calls[k] : k \in 1..Len(calls)} :
       c.op = "updateLog" /\ c.plannedTime # Null /\ c.order # Null
  /\ \E c \in {calls[k] : k \in 1..Len(calls)} :
       c.op = "updateLog" /\ c.plannedTime = Null /\ c.order # Null

\* the logs of session sid the store holds, not archived
Stored(sid) == {k \in 1..Len(pages) : pages[k].sessionId = sid /\ ~pages[k].archived}

\* C6: after every completed save the order values of the saved session's
\* logs in the store are exactly 0..k-1, each once.
C6_StoredOrdersContiguous ==
  SaveDone =>
    /\ {pages[k].order : k \in Stored(activeSessionId)}
         = 0..(Cardinality(Stored(activeSessionId)) - 1)
    /\ \A j, k \in Stored(activeSessionId) : pages[j].order = pages[k].order => j = k

C6_Witness == SaveDone /\ Cardinality(Stored(activeSessionId)) >= 2 /\ calls # <<>>

(***************************************************************************)
(* Reordering.                                                             *)
(***************************************************************************)
\* the selection pane's handler takes keys and is not entering a duration
SelectedReady ==
  state = "browse" /\ focusArea = "selected" /\ ~isEditingTime /\ ~crashed /\ job = NoJob
Directions == {"up", "down"}
Times(s, e) == Cardinality({k \in 1..Len(s) : s[k] = e})
SameEntries(r, s) ==
  /\ Len(r) = Len(s)
  /\ \A k \in 1..Len(s) : Times(r, s[k]) = Times(s, s[k])
AtBoundary(i, direction, len) ==
  (i = 0 /\ direction = "up") \/ (i = len - 1 /\ direction = "down")
\* s with the entries at positions i and j exchanged
Exchanged(s, i, j) == [s EXCEPT ![i + 1] = At(s, j), ![j + 1] = At(s, i)]

\* C7: moveItem(index, direction), with the index the selection pane passes,
\* leaves the working set as it is at index 0 moving up and at the last
\* index moving down, exchanges the entry at any other in-range index with
\* its neighbour, and in every case keeps the length and the entries.
C7_MoveItemKeepsEntries ==
  SelectedReady =>
    \A d \in Directions :
      LET i == selectedPanelIndex
          r == MoveItems(selectedItems, i, d)
      IN /\ AtBoundary(i, d, Len(selectedItems)) => r = selectedItems
         /\ (InRange(selectedItems, i) /\ ~AtBoundary(i, d, Len(selectedItems)))
              => r = Exchanged(selectedItems, i, NewIndex(i, d))
         /\ SameEntries(r, selectedItems)

\* a move has exchanged the two entries of the baseline
C7_Witness ==
  /\ SelectedReady /\ Len(originalItems) = 2
  /\ selectedItems = Exchanged(originalItems, 0, 1)

\* a key was handled and no request started or ended
KeyStep ==
  /\ state = "browse" /\ state' = "browse"
  /\ job = NoJob /\ job' = NoJob /\ loads' = loads
\* a key exchanged two entries of the working set
Moved ==
  /\ KeyStep /\ selectedItems' # selectedItems
  /\ SameEntries(selectedItems', selectedItems)

\* C8: a step that moves the entry under the cursor leaves the cursor on that
\* entry, one position further in the direction of the move; a moveItem at
\* a boundary leaves working set and cursor as they are.
C8_CursorFollowsMove ==
  /\ [][Moved =>
          /\ selectedPanelIndex' \in {selectedPanelIndex - 1, selectedPanelIndex + 1}
          /\ At(selectedItems', selectedPanelIndex') = At(selectedItems, selectedPanelIndex)
          /\ At(selectedItems', selectedPanelIndex) = At(selectedItems, selectedPanelIndex')]_vars
  /\ [](SelectedReady =>
          \A d \in Directions :
            AtBoundary(selectedPanelIndex, d, Len(selectedItems)) =>
              /\ MoveCursor(selectedPanelIndex, d, Len(selectedItems)) = selectedPanelIndex
              /\ MoveItems(selectedItems, selectedPanelIndex, d) = selectedItems)

\* the second entry of the baseline was moved up and the cursor is on it
C8_Witness ==
  /\ SelectedReady /\ Len(originalItems) = 3
  /\ selectedItems = Exchanged(originalItems, 0, 1)
  /\ selectedPanelIndex = 0 /\ At(selectedItems, 0) = At(originalItems, 1)

(***************************************************************************)
(* Exact-duration entry.                                                   *)
(***************************************************************************)
MaxMinutes == 999
\* the step that ends the entry of a duration
EntryEnds == isEditingTime /\ ~isEditingTime'
\* the entry under the cursor with the planned duration set to minutes
WithPlanned(minutes) ==
  [selectedItems EXCEPT ![selectedPanelIndex + 1].plannedMinutes = minutes]

\* C9: confirming an exact duration sets the planned duration of the entry
\* under the cursor when the input reads as an integer in 1..999 and leaves
\* the working set as it is otherwise (empty input, zero).  The input never
\* holds more than three digits: a further digit is dropped, so the digit
\* sequence 1000 is the input 100.
C9_ConfirmSetsValidMinutes ==
  /\ [][EntryEnds =>
          selectedItems' =
            IF ParseInt(timeInputValue) \in 1..MaxMinutes
               /\ InRange(selectedItems, selectedPanelIndex)
            THEN WithPlanned(ParseInt(timeInputValue))
            ELSE selectedItems]_vars
  /\ [](/\ Len(timeInputValue) <= MaxDigits
        /\ Len(timeInputValue) = MaxDigits =>
             \A d \in Digits : AppendDigit(timeInputValue, d) = timeInputValue)

\* the digits 1, 0, 0 were entered and confirmed
C9_Witness ==
  /\ ~isEditingTime /\ Len(selectedItems) = 1
  /\ selectedItems[1].plannedMinutes = 100

\* C9 as the specification states it: when the digits typed, the input so
\* far followed by one more digit d, read as a number outside 1..999, the
\* confirm leaves the planned durations as they are.
C9_OutOfRangeRejected ==
  (isEditingTime /\ focusArea = "selected") =>
    \A d \in Digits :
      ParseInt(Append(timeInputValue, d)) \notin 1..MaxMinutes =>
        ConfirmItems(selectedItems, selectedPanelIndex, AppendDigit(timeInputValue, d))
          = selectedItems

(***************************************************************************)
(* The practice timer.  timing.ran is the time the clock advanced while    *)
(* the timer was running, timing.seed what the timer started from.         *)
(***************************************************************************)
Paused == practiceState # NoPractice /\ practiceState.isPaused
\* PracticeMode's updateDisplay ran
DisplayTicked ==
  practiceState # NoPractice /\ practiceState' # NoPractice /\ displayMs' # displayMs

\* C10: whenever the timer is paused, after start, pause, resume, pause in
\* particular, accumulatedMs is the actual time the timed entry already
\* had (0 when it had none) plus the time that passed in the running
\* segments; a display tick changes neither accumulatedMs nor startTime.
C10_AccumulatedIsSeedPlusSegments ==
  /\ [](Paused => practiceState.accumulatedMs = timing.seed + timing.ran)
  /\ [][DisplayTicked => practiceState' = practiceState]_vars

\* start, pause, resume, pause with two segments of time, display ticks in
\* between, on an entry that had actual time
C10_Witness ==
  /\ Paused /\ timing.pauses = 2 /\ timing.ran = 2 /\ displayMs > timing.seed
  /\ timing.seed > 0 /\ state = "practicing"

\* C10 as the specification states it: after start, pause, resume, pause
\* accumulatedMs is the sum of the two running segments.
C10_AccumulatedIsSegments ==
  (Paused /\ timing.pauses = 2) => practiceState.accumulatedMs = timing.ran

(***************************************************************************)
(* The dispatcher.                                                         *)
(***************************************************************************)
\* every key name the code tests for, and z
KeyNames ==
  {"tab", "escape", "e", "s", "r", "h", "l", "k", "j", "K", "J", "up", "down", "space",
   "return", "/", "o", "1", "2", "3", "f", "b", "w", "=", "+", "]", "-", "[", "x", "d",
   "t", "p", "y", "n", "backspace", "0", "9", "z"}
\* with Ctrl and with Shift, the names the code tests with them, and z
AllKeys == KeysOf(KeyNames, {"h", "l", "k", "j", "f", "b", "w", "z"}, {"k", "K", "j", "J", "z"})

\* the callback gets past its state guard
Routing == state = "browse" \/ (state = "practicing" /\ practiceState # NoPractice)
\* the key goes to a pane's handler or the timer's, which returns false
Unconsumed(key) ==
  LET hs == Dispatch(key)
  IN /\ Len(hs) = 1
     /\ hs[1] \in PaneNames \cup {"practice"}
     /\ ~Consumes(hs[1], key)
\* the composer, the store and the clock are as before
Untouched ==
  /\ UNCHANGED <<appVars, editVars, timerVars, asyncVars>>
  /\ UNCHANGED <<now, storeVars, crashed>>

\* C11: one run of the callback invokes at most one handler, the timer's,
\* one global shortcut's or the focused pane's, and exactly one when the
\* state is browse or the timer is shown; a key step whose handler returns
\* false changes nothing of the composer and does not crash it.
C11_OneHandlerPerKey ==
  /\ [](\A key \in AllKeys :
          LET hs == Dispatch(key)
          IN Len(hs) <= 1 /\ (Routing => Len(hs) = 1))
  /\ [][\A key \in AllKeys : (Unconsumed(key) /\ Key(key)) => Untouched]_vars

\* Escape in the search entry: the Escape clause is entered, invokes nothing
\* and falls through to the search handler, which returns false
C11_Witness ==
  /\ state = "browse" /\ focusArea = "search" /\ Len(selectedItems) > 0
  /\ Dispatch(KeyEvent("escape", FALSE, FALSE)) = <<"search">>
  /\ Unconsumed(KeyEvent("escape", FALSE, FALSE))

\* the Tab key, with and without modifiers
TabKeys == KeysOf({"tab"}, {"tab"}, {"tab"})

\* C12: in the browse phase a Tab key step takes the focus from the library
\* list to the selection pane when the working set is not empty and to the
\* search entry when it is empty, from the selection pane to the search
\* entry and from the search entry to the library list; it never opens the
\* session picker, leaves an open picker as it is, and never starts the
\* timer.
C12_TabCyclesPanes ==
  [][\A key \in TabKeys :
       (state = "browse" /\ Key(key)) =>
         /\ focusArea' = CASE focusArea = "list" ->
                                 IF Len(selectedItems) > 0 THEN "selected" ELSE "search"
                            [] focusArea = "selected" -> "search"
                            [] focusArea = "search" -> "list"
                            [] focusArea = "sessionPicker" -> "sessionPicker"
         /\ focusArea # "sessionPicker" => focusArea' # "sessionPicker"
         /\ state' = "browse" /\ practiceState' = NoPractice]_vars

\* the focus is on the selection pane of a loaded session
C12_Witness ==
  /\ state = "browse" /\ focusArea = "selected" /\ Len(selectedItems) > 0
  /\ activeSessionId # Null /\ NextPane(focusArea, selectedItems) = "search"

\* the Escape key, with and without modifiers
EscapeKeys == KeysOf({"escape"}, {"escape"}, {"escape"})

\* C13: in the browse phase an Escape key step ends with the focus on the
\* library list, whatever pane had the focus: the library list, the
\* selection pane, the session picker or the search entry.
C13_EscapeGoesToCatalog ==
  (state = "browse" /\ ~crashed) =>
    \A key \in EscapeKeys : ENABLED (Key(key) /\ focusArea' = "list")

\* the search entry has the focus and its handler does not take Escape
C13_Witness ==
  /\ state = "browse" /\ focusArea = "search" /\ sessions # <<>>
  /\ ~Consumes("search", KeyEvent("escape", FALSE, FALSE))
  /\ ~EscapeReturns(focusArea)

(***************************************************************************)
(* The timer takeover.                                                     *)
(***************************************************************************)
\* a PracticeState is created
TimerStarts == practiceState = NoPractice /\ practiceState' # NoPractice
\* the PracticeState is destroyed and the composer is back in browse
TimerEnds == practiceState # NoPractice /\ practiceState' = NoPractice /\ state' = "browse"
\* the last job was a timer confirm, and its calls succeeded
ConfirmDone == last.kind = "confirm" /\ last.outcome = "done"

\* C14: the timer starts from the selection pane on an entry with a log and
\* takes the keyboard over: while a PracticeState exists the state is
\* practicing, or saving for a confirm, and every key goes to the timer's
\* handler; the focus area is not changed by the timer, so after a cancel
\* and after a confirm whose calls succeed it is the selection pane.
C14_TimerKeepsFocus ==
  /\ [](practiceState # NoPractice =>
          /\ focusArea = "selected"
          /\ state = "practicing" \/ (state = "saving" /\ job.kind = "confirm")
          /\ state = "practicing" =>
               \A key \in AllKeys : Dispatch(key) = <<"practice">>)
  /\ [][TimerStarts => (focusArea = "selected" /\ TimedItem'.logId # Null)]_vars
  /\ [][TimerEnds => focusArea' = "selected"]_vars

\* a timer confirm has succeeded and the composer is back in browse
C14_Witness ==
  /\ ConfirmDone /\ state = "browse" /\ practiceState = NoPractice
  /\ focusArea = "selected" /\ calls # <<>>

\* C14 as the specification states it: after a cancel and after a confirm
\* whose calls succeed the focus is on the library list.
C14_TimerEndsInCatalog == [][TimerEnds => focusArea' = "list"]_vars

(***************************************************************************)
(* The session picker.                                                     *)
(***************************************************************************)
Named(names) == {key \in AllKeys : key.name \in names}
\* open-session-picker; cancel and confirm; pane-cycle and pane-jump
OpenKeys == Named({"e"})
PickerExitKeys == Named({"escape", "return", "space"})
PaneKeys == Named({"tab"}) \cup {key \in Named({"h", "l", "k", "j"}) : key.ctrl}
PickerOpen == focusArea = "sessionPicker"

\* C15: in the browse phase the key e opens the session picker from the
\* library list and from the selection pane; a step changes the focus to
\* the picker only by that key; while the picker is open a step changes
\* the focus only by Escape, Enter or Space, each of which sets it to the
\* library list; Tab and the Ctrl pane jumps neither open nor close the
\* picker.
C15_PickerOpensAndCloses ==
  /\ []((state = "browse" /\ ~crashed) =>
          /\ focusArea \in {"list", "selected"} =>
               \A key \in OpenKeys : ENABLED (Key(key) /\ PickerOpen')
          /\ PickerOpen =>
               \A key \in PickerExitKeys :
                 ENABLED Key(key) => ENABLED (Key(key) /\ focusArea' = "list"))
  /\ [][(~PickerOpen /\ PickerOpen') => \E key \in OpenKeys : Key(key)]_vars
  /\ [][(PickerOpen /\ focusArea' # focusArea) =>
          /\ focusArea' = "list"
          /\ \E key \in PickerExitKeys : Key(key)
          /\ \A key \in AllKeys \ PickerExitKeys : ~Key(key)]_vars
  /\ [][\A key \in PaneKeys : Key(key) => (PickerOpen' <=> PickerOpen)]_vars

\* the picker was opened from the selection pane of a loaded session and
\* its cursor is on a stored session
C15_Witness ==
  /\ state = "browse" /\ PickerOpen /\ Len(selectedItems) > 0
  /\ activeSessionId # Null /\ sessionCursorIndex > 0

(***************************************************************************)
(* A failing store call.                                                   *)
(***************************************************************************)
SaveFailed == last.kind = "save" /\ last.outcome = "failed"
IsPrefix(r, t) == Len(r) <= Len(t) /\ r = SubSeq(t, 1, Len(r))
\* the write calls the save that started from last would issue if none failed
PlannedOps(newSid) ==
  IF last.sid # Null THEN EditOps(last.sel, last.orig, last.sid)
  ELSE CreateOps(last.sel, newSid)
\* a call of the save in progress rejects in this step
SaveFails == job.kind = "save" /\ last'.outcome = "failed"

\* C16: when a call of a save fails the save is over: the calls issued are
\* the planned calls up to the failing one, no call follows and none undoes
\* a call that was applied; the failing step leaves the store as the calls
\* before it made it; the composer shows the error state with the save's
\* message.
C16_FailedSaveStops ==
  /\ [](SaveFailed =>
          /\ state = "error" /\ error = "Failed to save session" /\ job = NoJob
          /\ \E n \in SessionIds : IsPrefix(calls, PlannedOps(n)))
  /\ [][SaveFails => (storeVars' = storeVars /\ IsPrefix(calls, calls')
                      /\ Len(calls') <= Len(calls) + 1)]_vars
  /\ [][SaveFailed => (storeVars' = storeVars /\ Len(calls') <= Len(calls))]_vars

\* the session and its first log were created, the second createLog failed:
\* the first log stays in the store
C16_Witness ==
  /\ SaveFailed /\ last.sid = Null /\ Len(last.sel) = 2 /\ Len(calls) = 3
  /\ Len(storeSessions) = 1 /\ Cardinality(Stored(1)) = 1 /\ state = "error"

(***************************************************************************)
(* Busy phases.                                                            *)
(***************************************************************************)
BusyStates == {"loading", "creating", "saving"}
\* a save, or the save of a timer confirm, is in flight
Saving == job.kind \in {"save", "confirm"}

\* C17: in the states loading, creating and saving the callback invokes no
\* handler, and a key step changes nothing of the composer (focus, cursors,
\* working set, baseline, active session, PracticeState), starts no job and
\* issues no call.  A save and the save of a timer confirm are in flight in
\* these states only, so no key cancels or restarts the save or cancels
\* the timer meanwhile.
C17_BusyIgnoresKeys ==
  /\ []((state \in BusyStates => \A key \in AllKeys : Dispatch(key) = <<>>)
        /\ (Saving => state \in {"creating", "saving"})
        /\ (state \in BusyStates => job # NoJob)
        /\ ((state \in BusyStates /\ ~crashed) =>
              \A key \in AllKeys : ENABLED (Key(key) /\ Untouched /\ calls' = calls)))
  /\ [][(state \in BusyStates \/ Saving) =>
          \A key \in AllKeys : Key(key) => (Untouched /\ calls' = calls)]_vars

\* the update of a timer confirm is in flight and the timer is still there
C17_Witness ==
  /\ state = "saving" /\ job.kind = "confirm" /\ job.ops # <<>>
  /\ practiceState # NoPractice /\ practiceState.isConfirming
  /\ last.kind = "confirm" /\ last.outcome = "running"

\* a request to the store is awaited, or a log load of the picker is pending
InFlight == job # NoJob \/ \E sid \in SessionIds : loads[sid] > 0

\* C18: while a request to the store is in flight, the log load started by
\* choosing a session in the picker included, the state is loading,
\* creating or saving and the callback invokes no handler.
C18_InFlightIsBusy ==
  InFlight =>
    /\ state \in BusyStates
    /\ \A key \in AllKeys : Dispatch(key) = <<>>

\* a session was chosen in the picker and, its logs still loading, an item
\* was toggled in the library list
C18_Witness ==
  /\ state = "browse" /\ job = NoJob /\ activeSessionId # Null
  /\ loads[activeSessionId] > 0
  /\ Len(selectedItems) = 1 /\ selectedItems[1].logId = Null /\ originalItems = <<>>
  /\ Dispatch(KeyEvent("space", FALSE, FALSE)) = <<"list">>

(***************************************************************************)
(* Timer confirm and cancel.                                               *)
(***************************************************************************)
YesKey == KeyEvent("y", FALSE, FALSE)
EscapeKey == KeyEvent("escape", FALSE, FALSE)
Confirming == state = "practicing" /\ practiceState # NoPractice /\ practiceState.isConfirming
\* confirmSavePractice starts its save; its calls are over with success
ConfirmStarts == job.kind = "none" /\ job'.kind = "confirm"
ConfirmCompletes == job.kind = "confirm" /\ job'.kind = "none" /\ state' = "browse"
\* the update of the timed entry's log with the accumulated time as minutes
ActualUpdate(lid, ms) == Call("updateLog", lid, Null, Null, Null, Null, <<ms, MsPerMinute>>)

\* C19: a timer confirm on an entry with a log issues one updateLog for that
\* log, carrying accumulatedMs / 60000 as an exact fraction, and no other
\* call; when it has succeeded the logs of the active session are loaded
\* again into working set and baseline and the PracticeState is destroyed.
\* When the entry at the timed index has no log, or is not there, the
\* confirm key step is the step the cancel key would take: no call, no job,
\* no PracticeState, state browse.
C19_ConfirmWritesActual ==
  /\ [][ConfirmStarts =>
          /\ Confirming /\ TimedItem.logId # Null
          /\ job'.ops = <<ActualUpdate(TimedItem.logId, practiceState.accumulatedMs)>>
          /\ calls' = <<>> /\ practiceState' = practiceState]_vars
  /\ [](job.kind = "confirm" => Len(calls) + Len(job.ops) = 1)
  /\ [][ConfirmCompletes =>
          /\ Len(calls') = 1 /\ practiceState' = NoPractice
          /\ job.sid # Null =>
               /\ selectedItems' = LoadItems(FetchLogs(pages, job.sid), library)
               /\ originalItems' = selectedItems']_vars
  /\ [][(Confirming /\ TimedItem.logId = Null /\ Key(YesKey)) =>
          /\ Key(EscapeKey)
          /\ practiceState' = NoPractice /\ state' = "browse" /\ job' = NoJob
          /\ calls' = <<>> /\ storeVars' = storeVars]_vars

\* a confirm has succeeded: one update, with a time that is no whole number
\* of minutes, and the logs of the active session loaded again
C19_Witness ==
  /\ ConfirmDone /\ practiceState = NoPractice /\ state = "browse"
  /\ Len(calls) = 1 /\ calls[1].op = "updateLog"
  /\ calls[1].actualTime[1] % MsPerMinute # 0
  /\ last.sid # Null /\ selectedItems = LoadItems(FetchLogs(pages, last.sid), library)

\* the timer is shown: running, paused or confirming
TimerShown == state = "practicing" /\ practiceState # NoPractice /\ ~crashed
\* what a cancel leaves behind
Cancelled ==
  /\ practiceState' = NoPractice /\ state' = "browse"
  /\ job' = NoJob /\ loads' = loads /\ calls' = <<>> /\ storeVars' = storeVars
  /\ editVars' = editVars /\ focusArea' = focusArea
\* a key step destroys the PracticeState
TimerCancelled == practiceState # NoPractice /\ practiceState' = NoPractice /\ job = NoJob

\* C20: while the timer is shown, running, paused or confirming, the cancel
\* key is taken: the PracticeState is destroyed, the state is browse, no
\* job starts, no call is issued, the store and the working set with every
\* entry's actual duration are as before; and every key step that destroys
\* the PracticeState is such a step.
C20_CancelDiscardsTimer ==
  /\ [](TimerShown => ENABLED (Key(EscapeKey) /\ Cancelled))
  /\ [][TimerCancelled => Cancelled]_vars

\* the timer ran on an entry of a loaded session and was cancelled
C20_Witness ==
  /\ state = "browse" /\ practiceState = NoPractice /\ now > 0 /\ last = NoLast
  /\ focusArea = "selected" /\ activeSessionId # Null
  /\ selectedItems = LoadItems(FetchLogs(pages, activeSessionId), library)
  /\ \E i \in 1..Len(selectedItems) : selectedItems[i].actualMinutes # NoTime

(***************************************************************************)
(* The save, refresh and open-picker shortcuts.                            *)
(***************************************************************************)
ShortcutKeys == Named({"e", "s", "r"})
\* a save or a refresh starts
Requested == job.kind = "none" /\ job'.kind \in {"save", "refresh"}

\* C21: in browse with the focus on the search entry or the session picker
\* the keys e, s and r go to the pane's handler and their key step starts
\* no save and no refresh and leaves the focus where it is; with the focus
\* on the library list or the selection pane each is taken by its shortcut
\* and by no pane.  No save or refresh ever starts, and the picker never
\* opens, from the search entry or the picker.
C21_ShortcutsSuppressed ==
  /\ []((state = "browse" /\ ~crashed) =>
          \A key \in ShortcutKeys :
            IF focusArea \in {"search", "sessionPicker"}
            THEN /\ Dispatch(key) = <<focusArea>>
                 /\ ENABLED (Key(key) /\ job' = NoJob /\ state' = "browse"
                              /\ focusArea' = focusArea /\ calls' = <<>>)
            ELSE Dispatch(key) = <<key.name>>)
  /\ [][Requested => focusArea \in {"list", "selected"}]_vars
  /\ [][(~PickerOpen /\ PickerOpen') => focusArea \in {"list", "selected"}]_vars

\* the picker is open over a working set that a save would write
C21_Witness ==
  /\ state = "browse" /\ PickerOpen /\ ~crashed
  /\ Len(selectedItems) > 0 /\ selectedItems # originalItems /\ activeSessionId # Null

(***************************************************************************)
(* Saving after an aborted save.                                           *)
(***************************************************************************)
\* catalog item and planned duration of every entry, in the list's order
Plan(items) == [k \in 1..Len(items) |-> <<items[k].item, items[k].plannedMinutes>>]
\* the working set a load of session sid would build from the store now
Reloaded(sid) == LoadItems(FetchLogs(pages, sid), library)

\* C22: once a save was aborted by a failed call, a save that completes
\* leaves the store's logs of the active session, as a load reads them,
\* with the catalog items, the planned durations and the order of the
\* working set that was saved.
C22_NextSaveReconciles ==
  (aborted /\ SaveDone) => Plan(Reloaded(activeSessionId)) = Plan(last.sel)

\* a save was aborted, the composer was started again, the session was
\* loaded and edited and a save with calls has completed
C22_Witness ==
  /\ aborted /\ SaveDone /\ calls # <<>> /\ state = "browse"
  /\ activeSessionId # Null /\ Len(last.sel) >= 2

(***************************************************************************)
(* The baseline.                                                           *)
(***************************************************************************)
\* a key was handled by the library list or by the selection pane
PaneEdit ==
  /\ KeyStep /\ focusArea \in {"list", "selected"} /\ focusArea' = focusArea
  /\ \/ selectedItems' # selectedItems
     \/ isEditingTime' # isEditingTime
     \/ timeInputValue' # timeInputValue
\* a loadSessionLogs call has set working set and baseline
LoadCompletes ==
  /\ \/ loads' # loads
     \/ job.kind \in {"save", "confirm"} /\ job' = NoJob /\ state' = "browse"
  /\ \E sid \in SessionIds : selectedItems' = LoadItems(FetchLogs(pages, sid), library)
  /\ originalItems' = selectedItems'
\* clearSession was called
Cleared ==
  /\ focusArea = "sessionPicker"
  /\ activeSessionId' = Null /\ selectedItems' = <<>> /\ originalItems' = <<>>

\* C23: toggleItem, adjustTime, confirmTimeEdit, removeItem and moveItem leave
\* the baseline and the active session id as they were; a step that changes
\* the baseline is the completion of a loadSessionLogs, after which the
\* baseline equals the working set just built, or clearSession; the edits
\* that follow a load change the working set only.
C23_EditsKeepBaseline ==
  /\ [][PaneEdit => originalItems' = originalItems
                     /\ activeSessionId' = activeSessionId]_vars
  /\ [][originalItems' # originalItems => LoadCompletes \/ Cleared]_vars

\* a loaded session was edited: the working set differs from the baseline in
\* a planned duration, and the baseline still is what the load built
C23_Witness ==
  /\ state = "browse" /\ job = NoJob /\ activeSessionId # Null
  /\ originalItems = LoadItems(FetchLogs(pages, activeSessionId), library)
  /\ Len(selectedItems) = Len(originalItems) /\ originalItems # <<>>
  /\ \E k \in 1..Len(selectedItems) :
       /\ selectedItems[k].logId = originalItems[k].logId
       /\ selectedItems[k].plannedMinutes # originalItems[k].plannedMinutes

(***************************************************************************)
(* What a load builds.                                                     *)
(***************************************************************************)
\* the store's pages of session s, not archived, whose item is in the catalog
Resolving(sid) ==
  {k \in 1..Len(pages) : /\ pages[k].sessionId = sid /\ ~pages[k].archived
                         /\ \E i \in 1..Len(library) : library[i] = pages[k].itemId}
\* the members of a set of page ids, in the store's order
InOrder(S) ==
  [i \in 1..Cardinality(S) |-> CHOOSE k \in S : Cardinality({j \in S : j < k}) = i - 1]
\* one entry per resolving page, with the page's own planned time
Carried(sid) ==
  LET ids == InOrder(Resolving(sid))
  IN [i \in 1..Len(ids) |->
        SelectedItem(pages[ids[i]].itemId, pages[ids[i]].plannedTime,
                     pages[ids[i]].actualTime, ids[i])]
\* the same, with DefaultMinutes where the page has no planned time or zero
CarriedOrDefault(sid) ==
  LET ids == InOrder(Resolving(sid))
  IN [i \in 1..Len(ids) |->
        SelectedItem(pages[ids[i]].itemId,
                     IF pages[ids[i]].plannedTime \in {Null, 0}
                     THEN DefaultMinutes ELSE pages[ids[i]].plannedTime,
                     pages[ids[i]].actualTime, ids[i])]
\* the loadSessionLogs that a save awaits has resolved
ReloadDone == job.kind = "save" /\ job.pc = "logs" /\ job' = NoJob /\ state' = "browse"
\* a loadSessionLogs of the picker for session sid has ended
PickerLoadEnds(sid) == loads'[sid] < loads[sid]
\* a load has ended with the list built(sid), or has failed and set nothing
LoadsBuild(built(_)) ==
  /\ ReloadDone => /\ selectedItems' = built(job.sid)
                    /\ originalItems' = selectedItems'
                    /\ error' = error /\ ~crashed'
  /\ \A sid \in SessionIds :
       PickerLoadEnds(sid) =>
         \/ UNCHANGED <<selectedItems, originalItems, selectedPanelIndex>>
         \/ /\ selectedItems' = built(sid)
            /\ originalItems' = selectedItems'
            /\ error' = error /\ ~crashed'

\* C24 as stated: a completed load for session s leaves one entry per log of
\* s whose item is in the catalog, in fetched order, with the log's id, its
\* planned time and its actual time, and a baseline equal to that list.
C24_LoadCarriesPlanned == [][LoadsBuild(Carried)]_vars

\* C24: a completed load for session s leaves one entry per log of s whose
\* item is in the catalog, in fetched order, with the log's id and actual
\* time, and with the log's planned time when that is a number other than
\* zero and 5 minutes otherwise; a log whose item is not in the catalog
\* gives no entry and no error; the baseline equals that list, after the
\* picker's load and after the reload of a save.
C24_LoadBuildsEntries == [][LoadsBuild(CarriedOrDefault)]_vars

\* a save has reloaded a session in which a log has no planned time: its
\* entry has 5 minutes, in working set and baseline
C24_Witness ==
  /\ SaveDone /\ state = "browse" /\ activeSessionId # Null
  /\ selectedItems = originalItems /\ Len(selectedItems) >= 2
  /\ \E k \in 1..Len(selectedItems) :
       /\ pages[selectedItems[k].logId].plannedTime = Null
       /\ selectedItems[k].plannedMinutes = DefaultMinutes

(***************************************************************************)
(* Pause, resume, stop.                                                    *)
(***************************************************************************)
SpaceKey == KeyEvent("space", FALSE, FALSE)
Timing == state = "practicing" /\ practiceState # NoPractice
Running == Timing /\ ~practiceState.isPaused /\ ~practiceState.isConfirming
Pausing == Timing /\ practiceState.isPaused /\ ~practiceState.isConfirming

\* C25: the space key of the timer in state running adds now - startTime to
\* accumulatedMs and pauses, leaving startTime; in state paused it sets
\* startTime to now and resumes, leaving accumulatedMs; while confirming it
\* is taken and changes nothing; without a PracticeState togglePausePractice
\* changes nothing; a confirming PracticeState is always paused.
C25_PauseResume ==
  /\ [][(Running /\ Key(SpaceKey)) =>
          practiceState' = [practiceState EXCEPT
                              !.accumulatedMs = @ + (now - practiceState.startTime),
                              !.isPaused = TRUE]]_vars
  /\ [][(Pausing /\ Key(SpaceKey)) =>
          practiceState' = [practiceState EXCEPT !.startTime = now, !.isPaused = FALSE]]_vars
  /\ [][(Confirming /\ Key(SpaceKey)) => practiceState' = practiceState]_vars
  /\ [](Confirming => ENABLED (Key(SpaceKey) /\ practiceState' = practiceState
                                /\ state' = state))
  /\ [](practiceState = NoPractice =>
          ~ENABLED (togglePausePractice /\ <<appVars, editVars, timerVars>>'
                                             # <<appVars, editVars, timerVars>>))
  /\ [](practiceState # NoPractice /\ practiceState.isConfirming
          => practiceState.isPaused)

\* the timer ran, was paused, resumed, ran again and was stopped: it is
\* confirming, paused, with both segments accumulated
C25_Witness ==
  /\ Confirming /\ practiceState.isPaused /\ timing.pauses = 2 /\ timing.ran >= 2
  /\ practiceState.accumulatedMs = timing.seed + timing.ran
  /\ practiceState.startTime > 0 /\ now > practiceState.startTime

ReturnKey == KeyEvent("return", FALSE, FALSE)
NoKey == KeyEvent("n", FALSE, FALSE)

\* C26: the return key of the timer in state running adds now - startTime to
\* accumulatedMs and enters confirming, paused; in state paused it enters
\* confirming and leaves accumulatedMs; while confirming accumulatedMs does
\* not change, and the n key, which is taken, leaves the PracticeState
\* paused, not confirming, with the accumulatedMs it had on entering.
C26_StopAndCancelConfirm ==
  /\ [][(Running /\ Key(ReturnKey)) =>
          practiceState' = [practiceState EXCEPT
                              !.accumulatedMs = @ + (now - practiceState.startTime),
                              !.isPaused = TRUE, !.isConfirming = TRUE]]_vars
  /\ [][(Pausing /\ Key(ReturnKey)) =>
          practiceState' = [practiceState EXCEPT !.isConfirming = TRUE]]_vars
  /\ [][(Confirming /\ practiceState' # NoPractice) =>
          practiceState'.accumulatedMs = practiceState.accumulatedMs]_vars
  /\ [][(Confirming /\ Key(NoKey)) =>
          /\ practiceState' = [practiceState EXCEPT !.isConfirming = FALSE]
          /\ practiceState'.isPaused /\ state' = "practicing"]_vars
  /\ [](Confirming => ENABLED (Key(NoKey) /\ ~practiceState'.isConfirming))
  /\ [](Confirming => practiceState.accumulatedMs = timing.seed + timing.ran)

\* the timer was stopped while running on an entry that had actual time,
\* and is paused, not confirming, with the seed and the segment accumulated
C26_Witness ==
  /\ Pausing /\ timing.pauses = 1 /\ timing.seed > 0 /\ timing.ran >= 1
  /\ practiceState.accumulatedMs = timing.seed + timing.ran
  /\ ENABLED (Key(ReturnKey) /\ practiceState'.isConfirming
              /\ practiceState'.accumulatedMs = practiceState.accumulatedMs)

(***************************************************************************)
(* Resuming a timed entry.                                                 *)
(***************************************************************************)
StartKey == KeyEvent("p", FALSE, FALSE)
\* the position in items of the entry of log lid, from 0; -1 when none
EntryOf(items, lid) ==
  IF \E k \in 1..Len(items) : items[k].logId = lid
  THEN (CHOOSE k \in 1..Len(items) : items[k].logId = lid) - 1
  ELSE -1
\* the actual time of the entry at index, in milliseconds, 0 when none
PriorMs(items, index) ==
  IF items[index + 1].actualMinutes = NoTime THEN 0
  ELSE (items[index + 1].actualMinutes[1] * MsPerMinute) \div items[index + 1].actualMinutes[2]

\* C27: the timer starts running with accumulatedMs equal to the entry's
\* actual time in milliseconds, 0 when it has none; when a confirm has
\* succeeded and reloaded the session, the entry of the updated log holds
\* the confirmed time, so that a new start on it resumes from that value.
C27_ResumeFromConfirmed ==
  /\ [][TimerStarts =>
          /\ practiceState'.accumulatedMs = PriorMs(selectedItems, practiceState'.itemIndex)
          /\ ~practiceState'.isPaused /\ ~practiceState'.isConfirming
          /\ practiceState'.startTime = now /\ state' = "practicing"]_vars
  /\ [][(ConfirmCompletes /\ job.sid # Null
          /\ EntryOf(selectedItems', calls'[1].logId) >= 0) =>
          PriorMs(selectedItems', EntryOf(selectedItems', calls'[1].logId))
            = practiceState.accumulatedMs]_vars

\* a confirm has succeeded and reloaded the session, and a new start on the
\* entry of the updated log does not resume from the confirmed time
C27_Witness ==
  /\ ConfirmDone /\ state = "browse" /\ Len(calls) = 1 /\ last.sid # Null
  /\ EntryOf(selectedItems, calls[1].logId) = selectedPanelIndex
  /\ ENABLED (Key(StartKey) /\ practiceState' # NoPractice
              /\ practiceState'.accumulatedMs < calls[1].actualTime[1])

(***************************************************************************)
(* A refresh that fails.                                                   *)
(***************************************************************************)
Refreshing == job.kind = "refresh"
RefreshStarts == ~Refreshing /\ Refreshing'
RefreshFails == Refreshing /\ state' = "error"
RefreshFailed == last.kind = "refresh" /\ last.outcome = "failed"
\* what a refresh may replace, and what the panes hold
Fetched == <<library, sessions>>
Edited == <<selectedItems, originalItems, selectedPanelIndex>>
Place == <<activeSessionId, cursorIndex, sessionCursorIndex, focusArea>>

Failing == state # "error" /\ state' = "error"
FailMessages == {"Failed to refresh", "Failed to save session", "Failed to save"}
Failed == state = "error" /\ error \in FailMessages
FailMessageOf(kind) == CASE kind = "mount" -> "Failed to load data"
                         [] kind = "refresh" -> "Failed to refresh"
                         [] kind = "save" -> "Failed to save session"
                         [] kind = "confirm" -> "Failed to save"

OnItem == state = "browse" /\ focusArea = "list" /\ InRange(FilteredItems, cursorIndex)
\* the sequence s without its element at position k, from 1
Without(s, k) == SubSeq(s, 1, k - 1) \o SubSeq(s, k + 1, Len(s))
\* the positions of the entries of catalog item c
PositionsOf(items, c) == {k \in 1..Len(items) : items[k].item = c}

\* the toggle key on an item: removed(items, c) when c has an entry, the
\* default entry appended otherwise, nothing else of the editor changed
TogglesBy(removed(_, _)) ==
  (OnItem /\ Key(ReturnKey)) =>
    LET c == At(FilteredItems, cursorIndex)
    IN /\ IF PositionsOf(selectedItems, c) # {}
          THEN selectedItems' \in removed(selectedItems, c)
          ELSE selectedItems' =
                 selectedItems \o <<[item |-> c, plannedMinutes |-> 5,
                                     actualMinutes |-> NoTime, logId |-> Null]>>
       /\ UNCHANGED <<originalItems, activeSessionId, selectedPanelIndex,
                      isEditingTime, timeInputValue>>
\* the lists that lack one entry of c
OneRemoved(items, c) == {Without(items, k) : k \in PositionsOf(items, c)}
\* the list that lacks every entry of c
AllRemoved(items, c) == {SelectSeq(items, LAMBDA e : e.item # c)}

PlusKey == KeyEvent("+", FALSE, FALSE)
MinusKey == KeyEvent("-", FALSE, FALSE)
\* the selection pane has the focus and takes the adjust keys
Adjusting == state = "browse" /\ focusArea = "selected" /\ ~isEditingTime
\* the working set with the planned minutes at the cursor changed by delta,
\* not below 1; the working set itself when the cursor is on no entry
Adjusted(delta) ==
  IF selectedPanelIndex >= 0 /\ selectedPanelIndex < Len(selectedItems)
  THEN [k \in 1..Len(selectedItems) |->
          IF k = selectedPanelIndex + 1
          THEN [selectedItems[k] EXCEPT
                  !.plannedMinutes = IF @ + delta >= 1 THEN @ + delta ELSE 1]
          ELSE selectedItems[k]]
  ELSE selectedItems

\* C31: with a store whose planned times are positive integers or absent,
\* every entry of the working set has a planned duration that is an
\* integer of at least 1; the adjust keys set the planned duration at the
\* cursor to max(1, current + delta) and change nothing when the cursor is
\* on no entry; an entry loaded from a log without planned time has 5.
C31_PlannedAtLeastOne ==
  /\ [](\A k \in 1..Len(selectedItems) :
          selectedItems[k] # Hole =>
            selectedItems[k].plannedMinutes \in Nat /\ selectedItems[k].plannedMinutes >= 1)
  /\ [][(Adjusting /\ Key(PlusKey)) => selectedItems' = Adjusted(1)]_vars
  /\ [][(Adjusting /\ Key(MinusKey)) => selectedItems' = Adjusted(-1)]_vars
  /\ [](Adjusting /\ ~crashed =>
          /\ ENABLED (Key(MinusKey) /\ selectedItems' = Adjusted(-1))
          /\ ENABLED (Key(PlusKey) /\ (selectedItems' = Adjusted(1)
                                        \/ ~PlannedUpTo(Adjusted(1)))))
  /\ [][(loads' # loads /\ selectedItems' # selectedItems) =>
          \A k \in 1..Len(selectedItems') :
            pages[selectedItems'[k].logId].plannedTime = Null
              => selectedItems'[k].plannedMinutes = DefaultMinutes]_vars

\* the minus key is pressed on an entry of one minute: it stays at one
\* minute, next to an entry that was loaded with the default
C31_Witness ==
  /\ Adjusting /\ ~crashed /\ Len(selectedItems) = 2 /\ selectedPanelIndex = 0
  /\ Len(originalItems) = 2
  /\ selectedItems[1].plannedMinutes = 1 /\ originalItems[1].plannedMinutes = 2
  /\ selectedItems[2].plannedMinutes = DefaultMinutes
  /\ pages[selectedItems[2].logId].plannedTime = Null
  /\ Adjusted(-1) = selectedItems

(***************************************************************************)
(* removeItem.                                                             *)
(***************************************************************************)
RemoveKey == KeyEvent("x", FALSE, FALSE)
\* the selection pane takes the remove key and its cursor is on an entry
OnEntry ==
  /\ state = "browse" /\ focusArea = "selected" /\ ~isEditingTime /\ ~crashed
  /\ selectedPanelIndex >= 0 /\ selectedPanelIndex < Len(selectedItems)

\* C32: the remove key with the cursor on an entry deletes that entry and
\* no other, the remaining entries keeping their order, and leaves the
\* cursor at min(old cursor, new length - 1), at 0 when the working set has
\* become empty.
C32_RemoveAtCursor ==
  /\ [][(OnEntry /\ Key(RemoveKey)) =>
          /\ selectedItems' = Without(selectedItems, selectedPanelIndex + 1)
          /\ selectedPanelIndex' =
                IF Len(selectedItems') = 0 THEN 0
                ELSE IF selectedPanelIndex < Len(selectedItems') - 1
                THEN selectedPanelIndex ELSE Len(selectedItems') - 1
          /\ UNCHANGED <<originalItems, activeSessionId, focusArea, state>>]_vars
  /\ [](OnEntry => ENABLED (Key(RemoveKey)
                            /\ Len(selectedItems') = Len(selectedItems) - 1))

\* the last of three loaded entries was removed with the cursor on it: the
\* cursor is on the new last entry
C32_Witness ==
  /\ OnEntry /\ Len(originalItems) = 3 /\ Len(selectedItems) = 2
  /\ selectedItems = SubSeq(originalItems, 1, 2) /\ selectedPanelIndex = 1

(***************************************************************************)
(* The cursor of the selection pane and the slots of the working set.      *)
(***************************************************************************)
\* C33: the cursor of the selection pane is at least 0 and at most
\* max(0, length of the working set - 1).
C33_CursorInRange ==
  /\ selectedPanelIndex >= 0
  /\ selectedPanelIndex <= Max(0, Len(selectedItems) - 1)

\* the down key was handled on an empty working set, or an entry of a
\* working set was toggled off in the library with the cursor on the last
C33_Witness ==
  /\ state = "browse" /\ ~crashed /\ job = NoJob
  /\ \/ focusArea = "selected" /\ selectedItems = <<>> /\ selectedPanelIndex = -1
     \/ focusArea = "list" /\ Len(selectedItems) = 2 /\ selectedPanelIndex = 2

MoveKeys == KeysOf({}, {}, {"J", "K"})
\* the selection pane takes the reorder keys
Reordering == state = "browse" /\ focusArea = "selected" /\ ~isEditingTime /\ ~crashed

\* C34: every position of the working set holds an entry, never an
\* undefined slot, and a reorder key leaves the working set with the same
\* length and the same entries, each as often as before, whatever the
\* cursor of the selection pane is.
C34_EntriesWellFormed ==
  /\ [](\A k \in 1..Len(selectedItems) : selectedItems[k] # Hole)
  /\ [][\A key \in MoveKeys :
          (Reordering /\ Key(key)) =>
            /\ Len(selectedItems') = Len(selectedItems)
            /\ SameEntries(selectedItems', selectedItems)]_vars

\* a reorder key has left an undefined slot in the working set, and the
\* render that followed threw
C34_Witness ==
  /\ crashed /\ focusArea = "selected" /\ selectedItems # <<>>
  /\ \E k \in 1..Len(selectedItems) : selectedItems[k] = Hole

(***************************************************************************)
(* Exact-duration entry and the dispatcher.                                *)
(***************************************************************************)
\* C35: while a duration is being entered the focus is on the selection
\* pane and every key goes to the selection pane's handler and to no other:
\* Escape ends the entry without a change of the working set, Enter ends it,
\* and no key changes anything but the working set's planned duration and
\* the input.
C35_EditModeOwnsKeys ==
  isEditingTime =>
    /\ focusArea = "selected"
    /\ (state = "browse" /\ ~crashed) =>
         /\ \A key \in TimeEditKeys : Dispatch(key) = <<"selected">>
         /\ ENABLED (Key(EscapeKey) /\ ~isEditingTime' /\ focusArea' = focusArea
                     /\ selectedItems' = selectedItems)
         /\ ENABLED (Key(ReturnKey) /\ ~isEditingTime' /\ focusArea' = focusArea)

\* digits were typed into the input of the selection pane, and Escape
\* leaves the input open and moves the focus to the library list
C35_Witness ==
  /\ isEditingTime /\ focusArea = "selected" /\ state = "browse" /\ ~crashed
  /\ timeInputValue # <<>> /\ Dispatch(EscapeKey) = <<"escape">>
  /\ ENABLED (Key(EscapeKey) /\ isEditingTime' /\ focusArea' = "list"
              /\ timeInputValue' = timeInputValue)

(***************************************************************************)
(* The focus on the selection pane.                                        *)
(***************************************************************************)
\* C36: in state browse the selection pane has the focus only while the
\* working set has an entry.
C36_FocusedSelectionNonEmpty ==
  (state = "browse" /\ focusArea = "selected") => selectedItems # <<>>

\* the only entry was removed in the selection pane: the pane keeps the
\* focus on an empty working set, whose baseline is not empty
C36_Witness ==
  /\ state = "browse" /\ focusArea = "selected" /\ ~crashed /\ job = NoJob
  /\ selectedItems = <<>> /\ originalItems # <<>> /\ activeSessionId # Null
  /\ selectedPanelIndex = 0

(***************************************************************************)
(* Loads that are not awaited.                                             *)
(***************************************************************************)
\* no loadSessionLogs is in flight and no operation that awaits one
NoLoadInFlight == loads = NoLoads /\ job = NoJob
\* the log ids that the entries of items refer to
LogsOf(items) ==
  {items[k].logId : k \in {j \in 1..Len(items) : items[j] # Hole /\ items[j].logId # Null}}

\* C37: while no load is in flight every log id in working set and baseline
\* is the id of a log of the active session, and with no active session no
\* entry has a log id and the baseline is empty.
C37_ReferencesOfActiveSession ==
  NoLoadInFlight =>
    /\ \A lid \in LogsOf(selectedItems) \cup LogsOf(originalItems) :
         lid \in 1..Len(pages) /\ pages[lid].sessionId = activeSessionId
    /\ activeSessionId = Null =>
         LogsOf(selectedItems) = {} /\ originalItems = <<>>

\* two sessions were picked one after the other and the load of the first
\* resolved last: the active session is the second, the entries are the
\* logs of the first
C37_Witness ==
  /\ NoLoadInFlight /\ state = "browse" /\ ~crashed
  /\ activeSessionId # Null /\ selectedItems # <<>> /\ originalItems = selectedItems
  /\ \A lid \in LogsOf(selectedItems) : pages[lid].sessionId # activeSessionId
  /\ FetchLogs(pages, activeSessionId) # <<>>

\* C38: the updateLog call of a timer confirm has the id of the log of the
\* entry the timer was started on, timing.lid, and the accumulated time of
\* the PracticeState; while the timer exists the entry at its index is the
\* entry it was started on.
C38_ConfirmTargetsTimedEntry ==
  /\ [](practiceState # NoPractice => TimedItem.logId = timing.lid)
  /\ [][ConfirmStarts =>
          job'.ops = <<ActualUpdate(timing.lid, practiceState.accumulatedMs)>>]_vars

\* a confirm is writing the accumulated time to a log of another session
\* than the log the timer was started on
C38_Witness ==
  /\ job.kind = "confirm" /\ job.ops # <<>> /\ state = "saving"
  /\ timing.lid # Null /\ job.ops[1].logId # timing.lid
  /\ pages[job.ops[1].logId].sessionId # pages[timing.lid].sessionId
  /\ job.ops[1].actualTime[1] = practiceState.accumulatedMs
  /\ practiceState.accumulatedMs > 0

\* The logs of the store that are not deleted and record item c in session sid.
StoredLogsOf(sid, c) ==
  {k \in 1..Len(pages) : /\ ~pages[k].archived
                         /\ pages[k].sessionId = sid
                         /\ pages[k].itemId = c}

OnePerItemInSet == \A c \in Items : Cardinality(PositionsOf(selectedItems, c)) <= 1

OnePerItemInStore ==
  \A sid \in 1..MaxSessions : \A c \in Items : Cardinality(StoredLogsOf(sid, c)) <= 1

\* C39: from a store with at most one log per catalog item in each session,
\* the working set always has at most one entry per catalog item, and the store
\* keeps at most one log that is not deleted per catalog item in each session.
C39_OneEntryPerItem == OnePerItemInSet /\ OnePerItemInStore

C39_Witness ==
  /\ state = "browse" /\ job = NoJob /\ activeSessionId = 1
  /\ Cardinality(StoredLogsOf(1, 1)) = 2
  /\ Cardinality(PositionsOf(selectedItems, 1)) = 2
  /\ Len(selectedItems) = 2


\* every store call that was issued is answered, by a result or by a failure
SpecAnswered == Init /\ [][NextFail]_vars /\ WF_vars(Resolve)

ConfirmAccepted == job.kind = "confirm"

\* C40: when every issued store call is answered, a phase loading, creating or
\* saving is followed by browse or error, and a timer whose confirm was
\* accepted is destroyed afterwards.
C40_BusyPhasesEnd ==
  /\ (state \in BusyStates) ~> (state \in {"browse", "error"})
  /\ ConfirmAccepted ~> (practiceState = NoPractice)

C40_Witness ==
  /\ state = "browse" /\ job = NoJob /\ practiceState = NoPractice
  /\ last.kind = "confirm" /\ last.outcome = "done"
  /\ calls # <<>> /\ calls[Len(calls)].logId \in LogsOf(selectedItems)

====
